---- MODULE Spec2Model ----
(***************************************************************************)
(* Model of the defect-detection backend: the two-stage pipeline of        *)
(* processors/image_processor.py, the threshold update of main.py and the  *)
(* Flask handlers and response formatter of api_server.py.                 *)
(*                                                                         *)
(* Units.  Anomaly scores and thresholds are floats in the program; here   *)
(* they are integers counting 1e-5 (0.7 is 70000), so that rounding to     *)
(* four decimals is a real operation.  Processing times are integers       *)
(* counting milliseconds, so that rounding to two decimals is one too.     *)
(*                                                                         *)
(* Python values.  A dict is a function whose domain is its set of keys,   *)
(* a list is a sequence.  None is the empty function: like None it is      *)
(* falsy, and the code only ever tests these values for truthiness.        *)
(***************************************************************************)
EXTENDS Integers, Sequences, FiniteSets, TLC

VARIABLES
    main_ANOMALY_THRESHOLD,            \* main.py's module global ANOMALY_THRESHOLD
    main_DEFECT_CONFIDENCE_THRESHOLD,  \* main.py's module global DEFECT_CONFIDENCE_THRESHOLD
    pc,                                \* per worker thread: position in its handler
    request,                           \* per worker thread: the JSON body being served
    temp_path,                         \* per worker thread: local of detect_image
    anomaly_result,                    \* per worker thread: local of process_single_image
    result,                            \* per worker thread: local of process_single_image
    classify_calls,                    \* per worker thread: classify_defects calls of the current run
    threshold_changed_in_flight,       \* history: an update assigned the anomaly threshold during the run
    image_files,                       \* batch: the inputs of the batch being processed
    idx,                               \* batch: loop index
    results,                           \* batch: the results list
    summary,                           \* batch: the summary dict
    attempted,                         \* batch: the paths handed to the pipeline, in call order
    batch_pc,                          \* batch: position in the batch operation
    returned,                          \* batch: what the batch operation returned
    fmt_input,                         \* formatter: the internal result handed to it
    fmt_output,                        \* formatter: what it returned
    detector,                          \* facade: no detector, models not loaded, or ready
    device,                            \* facade: the detector's self.device
    api_call,                          \* facade and endpoints: the last call or request
    api_reply,                         \* facade and endpoints: what it gave back
    core_calls,                        \* facade and endpoints: detection-core calls it made
    class_map,                         \* extractor: the segmentation map handed to it
    extractions,                       \* extractor: what its runs on that map returned
    loader,                            \* ModelLoader: the models it holds and models_loaded
    detection_core,                    \* UnifiedDefectDetector: the models its core was built from
    folder,                            \* file system: the files under the input folder
    temp_files                         \* file system: the temporary image files that exist

vars == <<main_ANOMALY_THRESHOLD, main_DEFECT_CONFIDENCE_THRESHOLD, pc, request,
          temp_path, anomaly_result, result, classify_calls, threshold_changed_in_flight,
          image_files, idx, results, summary, attempted, batch_pc, returned,
          fmt_input, fmt_output, detector, device, api_call, api_reply, core_calls,
          class_map, extractions, loader, detection_core, folder, temp_files>>

server_vars == <<main_ANOMALY_THRESHOLD, main_DEFECT_CONFIDENCE_THRESHOLD, pc, request,
                 temp_path,
                 anomaly_result, result, classify_calls, threshold_changed_in_flight>>
batch_vars == <<image_files, idx, results, summary, attempted, batch_pc, returned>>
fmt_vars == <<fmt_input, fmt_output>>
thread_vars == <<pc, request, temp_path, anomaly_result, result, classify_calls,
                 threshold_changed_in_flight>>
api_vars == <<detector, device, api_call, api_reply, core_calls>>
extract_vars == <<class_map, extractions>>
load_vars == <<loader, detection_core>>
disk_vars == <<folder, temp_files>>

(***************************************************************************)
(* Program constants (config.py) and the bounds of the model.              *)
(***************************************************************************)
ANOMALY_THRESHOLD == 70000
DEFECT_CONFIDENCE_THRESHOLD == 85000
DEVICE == "cuda"

\* config.py lines 26-33: the classes, by class id.
SPECIFIC_DEFECT_CLASSES ==
    [ cid \in 0..5 |->
        <<"background", "damaged", "missing_component", "open", "scratch", "stained">>[cid + 1] ]

NumThreads == 2
MaxBatch == 5

Threads == 1..NumThreads

None == << >>

\* None where a number is expected (a JSON null): thresholds are integers, so
\* the None of a threshold is an integer no threshold value equals.
Null == 0 - 2

\* A value that may be None where a string is expected (a path): None, or the
\* one-element sequence of the string.
Some(v) == <<v>>

Falsy(v) == DOMAIN v = {}

Has(d, k) == k \in DOMAIN d

\* dict.get(k, default)
Get(d, k, default) == IF k \in DOMAIN d THEN d[k] ELSE default

\* d[k] = v on a dict that may or may not hold k
Put(d, k, v) == [j \in DOMAIN d \cup {k} |-> IF j = k THEN v ELSE d[j]]

\* The anomaly scores the anomaly model may report, around the threshold.
Scores == {10000, 69996, 70000, 95000}

\* The elapsed wall-clock times a run may measure.
Times == {120, 125}

\* The threshold values a client may send to /api/update-thresholds.
UpdateBodies ==
    { [anomaly_threshold |-> 50000],
      [anomaly_threshold |-> 90000],
      [defect_threshold |-> 80000],
      [anomaly_threshold |-> 50000, defect_threshold |-> 80000],
      [anomaly_threshold |-> Null, defect_threshold |-> 80000] }

(***************************************************************************)
(* DetectionCore (core/detection.py).  Its two operations follow the       *)
(* design's contract of the anomaly stage and of the classification stage, *)
(* and the way process_single_image consumes what they return: a dict, a   *)
(* falsy value, or an exception.                                           *)
(***************************************************************************)

\* What an inference call may do: return a value, return None, or raise.
Outcomes == {"ok", "none", "raise"}

\* The AnomalyOutcome of a score.  The core resolves ANOMALY_THRESHOLD in its
\* own module, which holds the value config.py set: update_thresholds assigns
\* main.py's global of that name, which no other module reads.
detect_anomaly_strict(score) ==
    [ anomaly_score  |-> score,
      decision       |-> IF score > ANOMALY_THRESHOLD THEN "DEFECT" ELSE "GOOD",
      threshold_used |-> ANOMALY_THRESHOLD,
      anomaly_mask   |-> None ]

detect_anomaly(score) ==
    [ anomaly_score  |-> score,
      decision       |-> IF score >= ANOMALY_THRESHOLD THEN "DEFECT" ELSE "GOOD",
      threshold_used |-> ANOMALY_THRESHOLD,
      anomaly_mask   |-> None ]

BBox(x, y, w, h, type, cid) ==
    [ x |-> x, y |-> y, width |-> w, height |-> h,
      center_x |-> x + w \div 2, center_y |-> y + h \div 2,
      area |-> w * h, defect_type |-> type, class_id |-> cid ]

ClassStat(cid, count, total) ==
    [ class_id |-> cid, pixel_count |-> count, percentage |-> (count * 100) \div total ]

\* One item of a dict whose iteration order matters (Python dicts iterate in
\* insertion order): such a dict is the sequence of its items.
Item(k, v) == [key |-> k, value |-> v]

\* The DefectClassification values classify_defects may return.
DefectOpen ==
    [ predicted_mask     |-> "class map",
      detected_defects   |-> <<"open">>,
      bounding_boxes     |-> << Item("open", <<BBox(10, 20, 15, 10, "open", 3)>>) >>,
      class_distribution |-> [ open |-> ClassStat(3, 150, 15000) ] ]

DefectDamagedScratch ==
    [ predicted_mask     |-> "class map",
      detected_defects   |-> <<"damaged", "scratch">>,
      bounding_boxes     |-> << Item("damaged", <<BBox(0, 0, 20, 10, "damaged", 1),
                                                  BBox(40, 40, 12, 12, "damaged", 1)>>),
                                Item("scratch", <<BBox(5, 60, 30, 5, "scratch", 4)>>) >>,
      class_distribution |-> [ damaged |-> ClassStat(1, 344, 15000),
                               scratch |-> ClassStat(4, 150, 15000) ] ]

DefectResults == {DefectOpen, DefectDamagedScratch}

\* classify_defects(image_path, region_mask): one of the classifications, or None.
classify_defects(outcome, defect_result) ==
    IF outcome = "ok" THEN defect_result ELSE None

(***************************************************************************)
(* ImageProcessor.process_single_image (processors/image_processor.py).    *)
(***************************************************************************)

\* Lines 50-57: the result dict built from the anomaly stage's answer.
InitialResult_live(image_path, anomaly) ==
    [ image_path            |-> image_path,
      timestamp             |-> "ts",
      anomaly_detection     |-> anomaly,
      defect_classification |-> None,
      processing_time       |-> 0,
      final_decision        |-> IF anomaly.anomaly_score >= main_ANOMALY_THRESHOLD
                                THEN "DEFECT" ELSE "GOOD" ]

InitialResult(image_path, anomaly) ==
    [ image_path            |-> image_path,
      timestamp             |-> "ts",
      anomaly_detection     |-> anomaly,
      defect_classification |-> None,
      processing_time       |-> 0,
      final_decision        |-> anomaly.decision ]

\* Line 60: the gate.
GateClassifies_always(anomaly) == TRUE

GateClassifies_inverted(anomaly) == anomaly.decision # "DEFECT"

GateClassifies(anomaly) == anomaly.decision = "DEFECT"

\* Lines 62-66: the classification folded into the result; a falsy
\* classification leaves the result as it is.
WithClassification(res, defect_result) ==
    IF ~Falsy(defect_result)
    THEN Put(Put(res, "defect_classification", defect_result),
             "detected_defect_types", defect_result.detected_defects)
    ELSE res

\* Line 69: the GOOD branch.
WithoutClassification(res) == Put(res, "detected_defect_types", << >>)

\* utils/visualization.py lines 85-105: the classification panel reads the
\* predicted mask and the detected defects of a truthy classification.
_plot_defect_classification(res) ==
    Falsy(res.defect_classification)
    \/ /\ Has(res.defect_classification, "predicted_mask")
       /\ Has(res.defect_classification, "detected_defects")

\* utils/visualization.py lines 108-138: the combined panel draws, for a
\* DEFECT decision, every box of a classification that holds boxes, in the
\* colour of the class its class_distribution entry names.
_plot_combined_result(res) ==
    LET c == res.defect_classification
    IN  ( /\ res.anomaly_detection.decision = "DEFECT"
          /\ ~Falsy(c)
          /\ Has(c, "bounding_boxes") ) =>
            \A i \in DOMAIN c.bounding_boxes :
               /\ Has(c, "class_distribution")
               /\ Has(c.class_distribution, c.bounding_boxes[i].key)
               /\ Has(c.class_distribution[c.bounding_boxes[i].key], "class_id")
               /\ \A j \in DOMAIN c.bounding_boxes[i].value :
                     {"x", "y", "width", "height"} \subseteq DOMAIN c.bounding_boxes[i].value[j]

\* utils/visualization.py lines 14-53: the path of the picture, or None when
\* anything raised on the way: render is "fail" when the image cannot be read
\* or the picture cannot be saved, and a panel raises KeyError on a result
\* that lacks what it reads.
create_visualization(res, render) ==
    IF /\ render = "ok"
       /\ _plot_defect_classification(res)
       /\ _plot_combined_result(res)
    THEN Some("analysis.png")
    ELSE None

\* Lines 72-83: time, visualization path and report path; save_analysis_report
\* may raise, and the except clause of line 85 then returns None.
FinishResult(res, elapsed, render, report) ==
    IF report = "raise"
    THEN None
    ELSE LET timed == Put(res, "processing_time", elapsed)
         IN  Put(Put(timed, "visualization_path", create_visualization(timed, render)),
                 "report_path", "report.json")

\* An image as the pipeline meets it: its path, the score the anomaly model
\* gives it, what each inference call does on it, the classification the
\* segmentation model gives it, the time the run takes, whether its picture
\* can be rendered and whether the report can be written.
Image(path, score, anomaly, classify, defects, elapsed, render, report) ==
    [ path |-> path, score |-> score, anomaly |-> anomaly, classify |-> classify,
      defects |-> defects, elapsed |-> elapsed, render |-> render, report |-> report ]

\* process_single_image as one call (lines 42-87), for the callers that run it
\* to completion.
process_single_image(img) ==
    IF img.anomaly # "ok"
    THEN None
    ELSE LET anomaly == detect_anomaly(img.score)
             res == InitialResult(img.path, anomaly)
         IN  IF GateClassifies(anomaly)
             THEN IF img.classify = "raise"
                  THEN None
                  ELSE FinishResult(
                         WithClassification(res, classify_defects(img.classify, img.defects)),
                         img.elapsed, img.render, img.report)
             ELSE FinishResult(WithoutClassification(res), img.elapsed, img.render,
                               img.report)

(***************************************************************************)
(* The API server (api_server.py): Flask's development server serves each  *)
(* request on a thread of its own, so the handlers of two requests         *)
(* interleave.  A worker thread is at one of these positions:              *)
(*   idle            waiting for a request                                 *)
(*   anomaly_infer   inside detection_core.detect_anomaly (line 45)        *)
(*   classify_infer  inside detection_core.classify_defects (line 62)      *)
(*   finish          between the stages and the return (lines 71-83)       *)
(*   respond         process_image has returned to the handler             *)
(*   upd_anomaly     update_thresholds, before main.py line 216            *)
(*   upd_defect      update_thresholds, before main.py line 220            *)
(***************************************************************************)

\* A temporary file is its name: the prefix, the index of the image in the
\* batch, and the uuid, a number.  api_server.py line 103:
\* f"temp_{temp_id}.jpg".
TempPath(uuid) == [prefix |-> "temp", idx |-> 0, uuid |-> uuid]

\* uuid.uuid4(): a value no file on disk has in its name, the least such
\* number (a uuid matters only by the names it differs from).
uuid4(files) ==
    CHOOSE u \in 1..(Cardinality(files) + 1) :
        /\ \A f \in files : f.uuid # u
        /\ \A v \in 1..(u - 1) : \E f \in files : f.uuid = v

\* with open(path, 'wb') as f: f.write(data) -- the file exists from open on,
\* also when the write raises.
Written(files, path) == files \cup {path}

\* if os.path.exists(path): os.remove(path)
Removed(files, path) == files \ {path}

\* An inference call is executing on the device.
InFlight(t) == pc[t] \in {"anomaly_infer", "classify_infer"}

\* A pipeline run has started and its handler has not answered yet.
Running(t) == pc[t] \in {"anomaly_infer", "classify_infer", "finish", "respond"}

ServerInit ==
    /\ main_ANOMALY_THRESHOLD = ANOMALY_THRESHOLD
    /\ main_DEFECT_CONFIDENCE_THRESHOLD = DEFECT_CONFIDENCE_THRESHOLD
    /\ pc = [t \in Threads |-> "idle"]
    /\ request = [t \in Threads |-> None]
    /\ temp_path = [t \in Threads |-> None]
    /\ anomaly_result = [t \in Threads |-> None]
    /\ result = [t \in Threads |-> None]
    /\ classify_calls = [t \in Threads |-> 0]
    /\ threshold_changed_in_flight = [t \in Threads |-> FALSE]

\* detect_image lines 86-108: the request is accepted, the image saved in a
\* temporary file named after a new uuid (lines 102-105), process_image
\* called on it, and process_single_image enters detect_anomaly.
DetectImageBegin(t) ==
    /\ pc[t] = "idle"
    /\ pc' = [pc EXCEPT ![t] = "anomaly_infer"]
    /\ temp_path' = [temp_path EXCEPT ![t] = TempPath(uuid4(temp_files))]
    /\ temp_files' = Written(temp_files, TempPath(uuid4(temp_files)))
    /\ anomaly_result' = [anomaly_result EXCEPT ![t] = None]
    /\ result' = [result EXCEPT ![t] = None]
    /\ classify_calls' = [classify_calls EXCEPT ![t] = 0]
    /\ threshold_changed_in_flight' = [threshold_changed_in_flight EXCEPT ![t] = FALSE]
    /\ UNCHANGED <<main_ANOMALY_THRESHOLD, main_DEFECT_CONFIDENCE_THRESHOLD, request>>
    /\ UNCHANGED <<batch_vars, fmt_vars, api_vars, extract_vars, load_vars, folder>>

\* process_single_image lines 45-69, from the return of detect_anomaly to the
\* call of classify_defects (DEFECT) or to the end of the GOOD branch.
AnomalyReturn(t) ==
    /\ pc[t] = "anomaly_infer"
    /\ \E outcome \in Outcomes, score \in Scores :
         IF outcome # "ok"
         THEN /\ result' = [result EXCEPT ![t] = None]
              /\ pc' = [pc EXCEPT ![t] = "respond"]
              /\ UNCHANGED <<anomaly_result, classify_calls>>
         ELSE LET anomaly == detect_anomaly(score)
                  res == InitialResult(temp_path[t], anomaly)
              IN  /\ anomaly_result' = [anomaly_result EXCEPT ![t] = anomaly]
                  /\ IF GateClassifies(anomaly)
                     THEN /\ result' = [result EXCEPT ![t] = res]
                          /\ classify_calls' = [classify_calls EXCEPT ![t] = @ + 1]
                          /\ pc' = [pc EXCEPT ![t] = "classify_infer"]
                     ELSE /\ result' = [result EXCEPT ![t] = WithoutClassification(res)]
                          /\ pc' = [pc EXCEPT ![t] = "finish"]
                          /\ UNCHANGED classify_calls
    /\ UNCHANGED <<main_ANOMALY_THRESHOLD, main_DEFECT_CONFIDENCE_THRESHOLD, request,
                   temp_path,
                   threshold_changed_in_flight>>
    /\ UNCHANGED <<batch_vars, fmt_vars, api_vars, extract_vars, load_vars, disk_vars>>

\* process_single_image lines 62-66, the return of classify_defects.
ClassifyReturn(t) ==
    /\ pc[t] = "classify_infer"
    /\ \E outcome \in Outcomes, d \in DefectResults :
         IF outcome = "raise"
         THEN /\ result' = [result EXCEPT ![t] = None]
              /\ pc' = [pc EXCEPT ![t] = "respond"]
         ELSE /\ result' = [result EXCEPT ![t] =
                              WithClassification(result[t], classify_defects(outcome, d))]
              /\ pc' = [pc EXCEPT ![t] = "finish"]
    /\ UNCHANGED <<main_ANOMALY_THRESHOLD, main_DEFECT_CONFIDENCE_THRESHOLD, request,
                   temp_path,
                   anomaly_result, classify_calls, threshold_changed_in_flight>>
    /\ UNCHANGED <<batch_vars, fmt_vars, api_vars, extract_vars, load_vars, disk_vars>>

\* process_single_image lines 71-87.
Finish(t) ==
    /\ pc[t] = "finish"
    /\ \E elapsed \in Times, render \in {"ok", "fail"}, report \in {"ok", "raise"} :
         result' = [result EXCEPT ![t] = FinishResult(result[t], elapsed, render, report)]
    /\ pc' = [pc EXCEPT ![t] = "respond"]
    /\ UNCHANGED <<main_ANOMALY_THRESHOLD, main_DEFECT_CONFIDENCE_THRESHOLD, request,
                   temp_path,
                   anomaly_result, classify_calls, threshold_changed_in_flight>>
    /\ UNCHANGED <<batch_vars, fmt_vars, api_vars, extract_vars, load_vars, disk_vars>>

\* detect_image lines 111-120: the handler removes its temporary file (lines
\* 112-113) and answers, and the thread is free.
Respond(t) ==
    /\ pc[t] = "respond"
    /\ pc' = [pc EXCEPT ![t] = "idle"]
    /\ temp_files' = Removed(temp_files, temp_path[t])
    /\ temp_path' = [temp_path EXCEPT ![t] = None]
    /\ anomaly_result' = [anomaly_result EXCEPT ![t] = None]
    /\ result' = [result EXCEPT ![t] = None]
    /\ classify_calls' = [classify_calls EXCEPT ![t] = 0]
    /\ threshold_changed_in_flight' = [threshold_changed_in_flight EXCEPT ![t] = FALSE]
    /\ UNCHANGED <<main_ANOMALY_THRESHOLD, main_DEFECT_CONFIDENCE_THRESHOLD, request>>
    /\ UNCHANGED <<batch_vars, fmt_vars, api_vars, extract_vars, load_vars, folder>>

\* The update-thresholds handler, api_server.py lines 203-210: a non-empty
\* body is read and UnifiedDefectDetector.update_thresholds is entered.
UpdateBegin(t) ==
    /\ pc[t] = "idle"
    /\ \E body \in UpdateBodies : request' = [request EXCEPT ![t] = body]
    /\ pc' = [pc EXCEPT ![t] = "upd_anomaly"]
    /\ UNCHANGED temp_path
    /\ UNCHANGED <<main_ANOMALY_THRESHOLD, main_DEFECT_CONFIDENCE_THRESHOLD,
                   anomaly_result, result, classify_calls, threshold_changed_in_flight>>
    /\ UNCHANGED <<batch_vars, fmt_vars, api_vars, extract_vars, load_vars, disk_vars>>

\* update_thresholds, main.py lines 216-218.
UpdateAnomaly(t) ==
    /\ pc[t] = "upd_anomaly"
    /\ IF Get(request[t], "anomaly_threshold", Null) # Null
       THEN /\ main_ANOMALY_THRESHOLD' = request[t].anomaly_threshold
            /\ threshold_changed_in_flight' =
                 [u \in Threads |-> threshold_changed_in_flight[u] \/ Running(u)]
       ELSE UNCHANGED <<main_ANOMALY_THRESHOLD, threshold_changed_in_flight>>
    /\ pc' = [pc EXCEPT ![t] = "upd_defect"]
    /\ UNCHANGED <<main_DEFECT_CONFIDENCE_THRESHOLD, request, temp_path,
                   anomaly_result, result, classify_calls>>
    /\ UNCHANGED <<batch_vars, fmt_vars, api_vars, extract_vars, load_vars, disk_vars>>

\* update_thresholds, main.py lines 220-222, and the handler's answer.
UpdateDefect(t) ==
    /\ pc[t] = "upd_defect"
    /\ IF Get(request[t], "defect_threshold", Null) # Null
       THEN main_DEFECT_CONFIDENCE_THRESHOLD' = request[t].defect_threshold
       ELSE UNCHANGED main_DEFECT_CONFIDENCE_THRESHOLD
    /\ pc' = [pc EXCEPT ![t] = "idle"]
    /\ request' = [request EXCEPT ![t] = None]
    /\ UNCHANGED <<main_ANOMALY_THRESHOLD, temp_path, anomaly_result, result, classify_calls,
                   threshold_changed_in_flight>>
    /\ UNCHANGED <<batch_vars, fmt_vars, api_vars, extract_vars, load_vars, disk_vars>>

BatchIdle ==
    /\ image_files = << >>
    /\ idx = 0
    /\ results = << >>
    /\ summary = None
    /\ attempted = << >>
    /\ batch_pc = "off"
    /\ returned = None

FormatterIdle ==
    /\ fmt_input = None
    /\ fmt_output = None

\* The facade of main.py is ready and no call on it is recorded.
ApiIdle ==
    /\ detector = "ready"
    /\ device = DEVICE
    /\ api_call = None
    /\ api_reply = None
    /\ core_calls = 0

\* No map has been handed to the extractor.
ExtractIdle ==
    /\ class_map = None
    /\ extractions = << >>

\* The model loader is not looked into.
LoadIdle ==
    /\ loader = None
    /\ detection_core = None

\* No input folder is being read and no temporary file exists.
DiskIdle ==
    /\ folder = << >>
    /\ temp_files = {}

Init ==
    /\ ServerInit
    /\ BatchIdle
    /\ FormatterIdle
    /\ ApiIdle
    /\ ExtractIdle
    /\ LoadIdle
    /\ DiskIdle

Next ==
    \/ \E t \in Threads : DetectImageBegin(t)
    \/ \E t \in Threads : AnomalyReturn(t)
    \/ \E t \in Threads : ClassifyReturn(t)
    \/ \E t \in Threads : Finish(t)
    \/ \E t \in Threads : Respond(t)
    \/ \E t \in Threads : UpdateBegin(t)
    \/ \E t \in Threads : UpdateAnomaly(t)
    \/ \E t \in Threads : UpdateDefect(t)

Spec == Init /\ [][Next]_vars

(***************************************************************************)
(* FlutterAPIServer._format_flutter_response (api_server.py lines 232-288). *)
(***************************************************************************)

\* A value that is not a number where a number is expected (a str):
\* round() raises TypeError on it, as it does on None.
NonNumeric == 0 - 1

IsNumeric(v) == v # NonNumeric /\ v # Null

\* 2^s modulo o.
RECURSIVE PowMod(_, _)
PowMod(s, o) == IF s = 0 THEN 1 % o ELSE (2 * PowMod(s - 1, o)) % o

\* The binary exponent of n / o, for n > 0: the e with 2^e <= n / o < 2^(e+1).
RECURSIVE Log2Floor(_, _)
Log2Floor(n, o) ==
    IF n >= 2 * o THEN 1 + Log2Floor(n \div 2, o)
    ELSE IF n < o THEN Log2Floor(2 * n, o) - 1
    ELSE 0

\* The float nearest to n / (2^k * o), o odd, compared with n / (2^k * o)
\* itself: 0 when it is that number, 1 when it is above it, -1 when below.  A
\* float has 53 significant bits, so it is a multiple of 2^(e - 52), e the
\* binary exponent of the number; what is left of n * 2^(52 - e - k) after
\* division by o says which way the nearest such multiple lies.
FloatError(n, o) ==
    IF n = 0 THEN 0
    ELSE LET left == ((n % o) * PowMod(52 - Log2Floor(n, o), o)) % o
         IN  IF left = 0 THEN 0 ELSE IF 2 * left < o THEN 0 - 1 ELSE 1

\* Python's round(x, ndigits) on the float x nearest to n units of
\* 10^-(ndigits + 1): the multiple of ten units nearest to the float.  Only
\* on a decimal tie does the float's own error decide: above the tie it goes
\* up, below it goes down, and a float that is the tie itself goes to the
\* even neighbour.
Round(n, ndigits) ==
    LET q == n \div 10
        r == n % 10
        error == FloatError(n, 5 ^ (ndigits + 1))
    IN  IF r < 5 THEN q * 10
        ELSE IF r > 5 THEN (q + 1) * 10
        ELSE IF error > 0 THEN (q + 1) * 10
        ELSE IF error < 0 THEN q * 10
        ELSE IF q % 2 = 0 THEN q * 10 ELSE (q + 1) * 10

BBoxKeys == {"x", "y", "width", "height", "center_x", "center_y", "area"}

\* Lines 270-279: one flattened entry.
FlatBox(defect_type, bbox) ==
    [ defect_type |-> defect_type,
      x |-> bbox.x, y |-> bbox.y, width |-> bbox.width, height |-> bbox.height,
      center_x |-> bbox.center_x, center_y |-> bbox.center_y, area |-> bbox.area ]

RECURSIVE FlattenBoxes_reversed(_)
FlattenBoxes_reversed(items) ==
    IF items = << >> THEN << >>
    ELSE FlattenBoxes_reversed(Tail(items))
         \o [ i \in 1..Len(Head(items).value) |->
                FlatBox(Head(items).key, Head(items).value[i]) ]

RECURSIVE FlattenBoxes(_)
\* Lines 268-279: the items of bounding_boxes in order, each type's boxes in order.
FlattenBoxes(items) ==
    IF items = << >> THEN << >>
    ELSE [ i \in 1..Len(Head(items).value) |->
             FlatBox(Head(items).key, Head(items).value[i]) ]
         \o FlattenBoxes(Tail(items))

\* The first expression of the try block that raises on this result, in the
\* order Python evaluates them; "" when none does.  It stands for str(e).
FirstFailure(res) ==
    IF ~Has(res, "final_decision") THEN "'final_decision'"
    ELSE IF ~Has(res, "processing_time") THEN "'processing_time'"
    ELSE IF ~IsNumeric(res.processing_time) THEN "type doesn't define __round__ method"
    ELSE IF ~Has(res, "timestamp") THEN "'timestamp'"
    ELSE IF ~Has(res, "anomaly_detection") THEN "'anomaly_detection'"
    ELSE IF ~Has(res.anomaly_detection, "anomaly_score") THEN "'anomaly_score'"
    ELSE IF ~IsNumeric(res.anomaly_detection.anomaly_score)
         THEN "type doesn't define __round__ method"
    ELSE IF ~Has(res.anomaly_detection, "decision") THEN "'decision'"
    ELSE IF ~Has(res.anomaly_detection, "threshold_used") THEN "'threshold_used'"
    ELSE IF Falsy(Get(res, "defect_classification", None)) THEN ""
    ELSE IF ~Has(res.defect_classification, "detected_defects") THEN "'detected_defects'"
    ELSE LET items == Get(res.defect_classification, "bounding_boxes", << >>)
             bad == { k \in BBoxKeys :
                        \E i \in 1..Len(items) : \E j \in 1..Len(items[i].value) :
                            ~Has(items[i].value[j], k) }
         IN  IF bad = {} THEN "" ELSE "bounding box key"

\* Lines 236-281: the response built when nothing raises.
SuccessResponse_nonnull(res) ==
    LET detected == Get(res, "detected_defect_types", << >>)
        defect_result == Get(res, "defect_classification", None)
        listed == IF Falsy(defect_result) THEN detected ELSE defect_result.detected_defects
    IN  [ status            |-> "success",
          final_decision    |-> res.final_decision,
          processing_time   |-> Round(res.processing_time, 2),
          timestamp         |-> res.timestamp,
          anomaly_detection |->
              [ anomaly_score  |-> Round(res.anomaly_detection.anomaly_score, 4),
                decision       |-> res.anomaly_detection.decision,
                threshold_used |-> res.anomaly_detection.threshold_used ],
          defect_classification |->
              [ detected_defects |-> listed, total_defect_types |-> Len(listed) ],
          detected_defects  |-> detected,
          defect_count      |-> Len(detected),
          bounding_boxes    |->
              IF Falsy(defect_result) THEN << >>
              ELSE FlattenBoxes(Get(defect_result, "bounding_boxes", << >>)) ]

SuccessResponse(res) ==
    LET base ==
          [ status            |-> "success",
            final_decision    |-> res.final_decision,
            processing_time   |-> Round(res.processing_time, 2),
            timestamp         |-> res.timestamp,
            anomaly_detection |->
                [ anomaly_score  |-> Round(res.anomaly_detection.anomaly_score, 4),
                  decision       |-> res.anomaly_detection.decision,
                  threshold_used |-> res.anomaly_detection.threshold_used ],
            defect_classification |-> None,
            detected_defects  |-> Get(res, "detected_defect_types", << >>),
            defect_count      |-> Len(Get(res, "detected_defect_types", << >>)),
            bounding_boxes    |-> << >> ]
        defect_result == Get(res, "defect_classification", None)
    IN  IF Falsy(defect_result)
        THEN base
        ELSE [ base EXCEPT
                 !.defect_classification =
                     [ detected_defects   |-> defect_result.detected_defects,
                       total_defect_types |-> Len(defect_result.detected_defects) ],
                 !.bounding_boxes =
                     FlattenBoxes(Get(defect_result, "bounding_boxes", << >>)) ]

\* Lines 283-288: the except clause.
ErrorResponse(msg) ==
    [ status |-> "error", error |-> msg, final_decision |-> "ERROR" ]

\* What leaves the function when an exception is not caught.
Raised(msg) == [ raised |-> msg ]

_format_flutter_response_uncaught(res) ==
    IF FirstFailure(res) = "" THEN SuccessResponse(res) ELSE Raised(FirstFailure(res))

_format_flutter_response(res) ==
    IF FirstFailure(res) = "" THEN SuccessResponse(res) ELSE ErrorResponse(FirstFailure(res))

(***************************************************************************)
(* Claims about the pipeline and the server, checked under Spec.           *)
(***************************************************************************)

\* The run of thread t has passed the anomaly stage with an answer.
Gated(t) == Running(t) /\ ~Falsy(anomaly_result[t])

\* process_image has returned a result (not None) to the handler of thread t.
Returned(t) == pc[t] = "respond" /\ ~Falsy(result[t])

\* C1: a run whose anomaly stage decides GOOD never calls classify_defects
\* and, when it returns a result, returns final_decision GOOD, no
\* defect_classification and an empty detected_defect_types.
C1_GoodSkipsClassification ==
    \A t \in Threads :
        (Gated(t) /\ anomaly_result[t].decision = "GOOD") =>
            /\ classify_calls[t] = 0
            /\ pc[t] # "classify_infer"
            /\ Returned(t) =>
                 /\ result[t].final_decision = "GOOD"
                 /\ Falsy(result[t].defect_classification)
                 /\ Has(result[t], "detected_defect_types")
                 /\ result[t].detected_defect_types = << >>

C1_Witness ==
    \E t \in Threads :
        /\ Returned(t)
        /\ anomaly_result[t].decision = "GOOD"
        /\ anomaly_result[t].anomaly_score < anomaly_result[t].threshold_used

\* C2: a run whose anomaly stage decides DEFECT calls classify_defects exactly
\* once, after the anomaly stage, and a result it returns has final_decision
\* DEFECT.
C2_DefectClassifiesOnce ==
    \A t \in Threads :
        /\ (Gated(t) /\ anomaly_result[t].decision = "DEFECT") =>
              /\ classify_calls[t] = 1
              /\ Returned(t) => result[t].final_decision = "DEFECT"
        /\ classify_calls[t] > 0 => Gated(t)

C2_Witness ==
    \E t \in Threads :
        /\ Returned(t)
        /\ anomaly_result[t].decision = "DEFECT"
        /\ anomaly_result[t].anomaly_score = anomaly_result[t].threshold_used
        /\ classify_calls[t] = 1

\* C3: the anomaly stage answers DEFECT exactly when the score is at or above
\* the threshold it used, GOOD otherwise; equality gives DEFECT.
C3_GateRule ==
    \A t \in Threads :
        Gated(t) =>
            anomaly_result[t].decision =
                IF anomaly_result[t].anomaly_score >= anomaly_result[t].threshold_used
                THEN "DEFECT" ELSE "GOOD"

C3_Witness ==
    \E t \in Threads :
        /\ Gated(t)
        /\ anomaly_result[t].anomaly_score = anomaly_result[t].threshold_used
        /\ anomaly_result[t].decision = "DEFECT"

\* C4: a run in which a stage failed returns no result; in particular no
\* returned DEFECT result lacks its classification or its defect types.
C4_NoPartialResult ==
    \A t \in Threads :
        (Returned(t) /\ result[t].final_decision = "DEFECT") =>
            /\ ~Falsy(result[t].defect_classification)
            /\ Has(result[t], "detected_defect_types")

\* C5: a run during which no update assigned the anomaly threshold decides
\* against the value the threshold store holds (the value of the last update
\* before the run started).
C5_RunsUseUpdatedThreshold ==
    \A t \in Threads :
        (Gated(t) /\ ~threshold_changed_in_flight[t]) =>
            anomaly_result[t].decision =
                IF anomaly_result[t].anomaly_score >= main_ANOMALY_THRESHOLD
                THEN "DEFECT" ELSE "GOOD"

\* C8: at most one inference call is executing on the device at any time.
C8_OneInferenceInFlight ==
    Cardinality({t \in Threads : InFlight(t)}) <= 1

\* C9: a returned result rests on one value of the anomaly threshold: the
\* anomaly outcome it carries is the one the gate saw, and the final decision
\* and the invocation of the classifier both agree with the threshold value
\* recorded in that outcome, whatever updates ran during the run.
C9_OneThresholdPerRun ==
    \A t \in Threads :
        Returned(t) =>
            LET a == result[t].anomaly_detection
                above == a.anomaly_score >= a.threshold_used
            IN  /\ a = anomaly_result[t]
                /\ result[t].final_decision = (IF above THEN "DEFECT" ELSE "GOOD")
                /\ classify_calls[t] = (IF above THEN 1 ELSE 0)

C9_Witness ==
    \E t \in Threads :
        /\ Returned(t)
        /\ threshold_changed_in_flight[t]
        /\ main_ANOMALY_THRESHOLD # result[t].anomaly_detection.threshold_used
        /\ result[t].anomaly_detection.anomaly_score >= main_ANOMALY_THRESHOLD
        /\ result[t].final_decision = "GOOD"

(***************************************************************************)
(* Batches.  The images a batch may hold: a good product, two defective    *)
(* ones, one whose classification comes back empty and one on which the    *)
(* anomaly inference fails.                                                *)
(***************************************************************************)
GoodImage    == Image("good.jpg", 10000, "ok", "ok", DefectOpen, 120, "ok", "ok")
OpenImage    == Image("open.jpg", 95000, "ok", "ok", DefectOpen, 125, "ok", "ok")
DamagedImage == Image("damaged.jpg", 70000, "ok", "ok", DefectDamagedScratch, 120, "ok", "ok")
UnclassifiedImage == Image("unclassified.jpg", 95000, "ok", "none", DefectOpen, 125, "fail", "ok")
FailingImage == Image("failing.jpg", 95000, "raise", "ok", DefectOpen, 120, "ok", "ok")

BatchImages == {GoodImage, OpenImage, DamagedImage, UnclassifiedImage, FailingImage}

\* The lists of at most MaxBatch elements of a set.
ListsOf(S) == UNION { [1..n -> S] : n \in 0..MaxBatch }

\* The orders in which list(a_set) may enumerate a set.
OrdersOf(S) == { l \in [1..Cardinality(S) -> S] : \A x \in S : \E i \in DOMAIN l : l[i] = x }

\* A float that is a quotient, kept exact.
Fraction(num, den) == [num |-> num, den |-> den]

RECURSIVE Sum(_)
Sum(seq) == IF seq = << >> THEN 0 ELSE Head(seq) + Sum(Tail(seq))

(***************************************************************************)
(* ImageProcessor.process_batch_images (image_processor.py lines 89-150),  *)
(* on the list of files its glob patterns collected.                       *)
(***************************************************************************)

\* Lines 109-116.
InitialSummary(files) ==
    [ total_images       |-> Len(files),
      good_products      |-> 0,
      defective_products |-> 0,
      defect_types_found |-> {},
      processing_times   |-> << >>,
      failed_processing  |-> 0 ]

\* Lines 123-134 on the summary: one outcome of process_single_image folded in.
FoldSummary_uncounted(sm, res) ==
    IF ~Falsy(res)
    THEN LET timed == [sm EXCEPT !.processing_times = Append(@, res.processing_time)]
         IN  IF res.final_decision = "GOOD"
             THEN [timed EXCEPT !.good_products = @ + 1]
             ELSE [timed EXCEPT
                     !.defective_products = @ + 1,
                     !.defect_types_found =
                         IF Has(res, "detected_defect_types")
                         THEN @ \cup { res.detected_defect_types[i] :
                                         i \in DOMAIN res.detected_defect_types }
                         ELSE @]
    ELSE sm

FoldSummary_timed_failures(sm, res) ==
    IF ~Falsy(res)
    THEN LET timed == [sm EXCEPT !.processing_times = Append(@, res.processing_time)]
         IN  IF res.final_decision = "GOOD"
             THEN [timed EXCEPT !.good_products = @ + 1]
             ELSE [timed EXCEPT
                     !.defective_products = @ + 1,
                     !.defect_types_found =
                         IF Has(res, "detected_defect_types")
                         THEN @ \cup { res.detected_defect_types[i] :
                                         i \in DOMAIN res.detected_defect_types }
                         ELSE @]
    ELSE [sm EXCEPT !.failed_processing = @ + 1,
                    !.processing_times = Append(@, 0)]

FoldSummary_last_types(sm, res) ==
    IF ~Falsy(res)
    THEN LET timed == [sm EXCEPT !.processing_times = Append(@, res.processing_time)]
         IN  IF res.final_decision = "GOOD"
             THEN [timed EXCEPT !.good_products = @ + 1]
             ELSE [timed EXCEPT
                     !.defective_products = @ + 1,
                     !.defect_types_found =
                         IF Has(res, "detected_defect_types")
                         THEN { res.detected_defect_types[i] :
                                  i \in DOMAIN res.detected_defect_types }
                         ELSE @]
    ELSE [sm EXCEPT !.failed_processing = @ + 1]

FoldSummary(sm, res) ==
    IF ~Falsy(res)
    THEN LET timed == [sm EXCEPT !.processing_times = Append(@, res.processing_time)]
         IN  IF res.final_decision = "GOOD"
             THEN [timed EXCEPT !.good_products = @ + 1]
             ELSE [timed EXCEPT
                     !.defective_products = @ + 1,
                     !.defect_types_found =
                         IF Has(res, "detected_defect_types")
                         THEN @ \cup { res.detected_defect_types[i] :
                                         i \in DOMAIN res.detected_defect_types }
                         ELSE @]
    ELSE [sm EXCEPT !.failed_processing = @ + 1]

\* Lines 123-124 on the results list.
FoldResults(rs, res) == IF ~Falsy(res) THEN Append(rs, res) ELSE rs

\* Lines 137-138: the set of types becomes a list, the mean time is added.
FinalSummary(sm, types) ==
    [ total_images        |-> sm.total_images,
      good_products       |-> sm.good_products,
      defective_products  |-> sm.defective_products,
      defect_types_found  |-> types,
      processing_times    |-> sm.processing_times,
      failed_processing   |-> sm.failed_processing,
      avg_processing_time |->
          IF sm.processing_times # << >>
          THEN Fraction(Sum(sm.processing_times), Len(sm.processing_times))
          ELSE Fraction(0, 1) ]

RECURSIVE BatchLoop(_, _, _)
\* Lines 118-134 run to the end: the results and the summary after the loop
\* has gone through files, starting from rs and sm.
BatchLoop(files, rs, sm) ==
    IF files = << >>
    THEN [results |-> rs, summary |-> sm]
    ELSE LET res == process_single_image(Head(files))
         IN  BatchLoop(Tail(files), FoldResults(rs, res), FoldSummary(sm, res))

\* process_batch_images as one call (lines 102-150): None without files, else
\* the results and the finished summary, its types listed in the order given.
process_batch_images(files, types) ==
    IF files = << >>
    THEN None
    ELSE LET after == BatchLoop(files, << >>, InitialSummary(files))
         IN  [results |-> after.results, summary |-> FinalSummary(after.summary, types)]

FolderInit ==
    /\ image_files \in ListsOf(BatchImages)
    /\ idx = 0
    /\ results = << >>
    /\ summary = None
    /\ attempted = << >>
    /\ batch_pc = "start"
    /\ returned = None

\* Lines 102-116: no file, no batch; else the empty results and summary.
FolderStart ==
    /\ batch_pc = "start"
    /\ IF image_files = << >>
       THEN /\ batch_pc' = "done"
            /\ UNCHANGED summary
       ELSE /\ batch_pc' = "loop"
            /\ summary' = InitialSummary(image_files)
    /\ UNCHANGED <<image_files, idx, results, attempted, returned>>
    /\ UNCHANGED <<server_vars, fmt_vars, api_vars, extract_vars, load_vars, disk_vars>>

\* Lines 118-134: one iteration of the loop.
FolderStep ==
    /\ batch_pc = "loop"
    /\ idx < Len(image_files)
    /\ LET img == image_files[idx + 1]
           res == process_single_image(img)
       IN  /\ attempted' = Append(attempted, img.path)
           /\ results' = FoldResults(results, res)
           /\ summary' = FoldSummary(summary, res)
    /\ idx' = idx + 1
    /\ UNCHANGED <<image_files, batch_pc, returned>>
    /\ UNCHANGED <<server_vars, fmt_vars, api_vars, extract_vars, load_vars, disk_vars>>

\* Lines 136-150: the loop is over; the summary is finished and returned.
FolderFinish ==
    /\ batch_pc = "loop"
    /\ idx = Len(image_files)
    /\ \E types \in OrdersOf(summary.defect_types_found) :
         /\ summary' = FinalSummary(summary, types)
         /\ returned' = [results |-> results, summary |-> summary']
    /\ batch_pc' = "done"
    /\ UNCHANGED <<image_files, idx, results, attempted>>
    /\ UNCHANGED <<server_vars, fmt_vars, api_vars, extract_vars, load_vars, disk_vars>>

InitFolder ==
    /\ ServerInit
    /\ FolderInit
    /\ FormatterIdle
    /\ ApiIdle
    /\ ExtractIdle
    /\ LoadIdle
    /\ DiskIdle

NextFolder ==
    \/ FolderStart
    \/ FolderStep
    \/ FolderFinish

SpecFolder == InitFolder /\ [][NextFolder]_vars

(***************************************************************************)
(* Claims about folder batches, checked under SpecFolder.                  *)
(***************************************************************************)

\* The number of images of the batch whose run returns no result.
Failures(files) == Cardinality({ i \in DOMAIN files : Falsy(process_single_image(files[i])) })

\* C6: a folder batch hands every image to the pipeline, in order, whatever
\* the earlier ones did; every failure counts in failed_processing; and the
\* returned summary satisfies total_images = good_products +
\* defective_products + failed_processing, with as many results as
\* good_products + defective_products.
C6_BatchIsolatesFailures ==
    /\ batch_pc = "loop" =>
          /\ Len(attempted) = idx
          /\ summary.failed_processing =
                Cardinality({ i \in 1..idx : Falsy(process_single_image(image_files[i])) })
          /\ idx = summary.good_products + summary.defective_products
                    + summary.failed_processing
          /\ Len(results) = summary.good_products + summary.defective_products
    /\ (batch_pc = "done" /\ image_files # << >>) =>
          /\ attempted = [ i \in DOMAIN image_files |-> image_files[i].path ]
          /\ returned.summary.total_images = Len(image_files)
          /\ returned.summary.failed_processing = Failures(image_files)
          /\ returned.summary.total_images =
                returned.summary.good_products + returned.summary.defective_products
                + returned.summary.failed_processing
          /\ Len(returned.results) =
                returned.summary.good_products + returned.summary.defective_products

\* Five images of which the second and the fourth fail: three results.
C6_Witness ==
    /\ batch_pc = "done"
    /\ Len(image_files) = 5
    /\ Falsy(process_single_image(image_files[2]))
    /\ Falsy(process_single_image(image_files[4]))
    /\ returned.summary.total_images = 5
    /\ returned.summary.failed_processing = 2
    /\ Len(returned.results) = 3

(***************************************************************************)
(* The batch-detect handler (api_server.py lines 129-194), with the models *)
(* loaded.  An element of the request's images list is a base64 string     *)
(* that decodes or not, and the image it decodes to.                       *)
(***************************************************************************)
Base64Item(b64, img) == [b64 |-> b64, img |-> img]

ApiItems ==
    { Base64Item("ok", img) : img \in BatchImages } \cup { Base64Item("bad", GoodImage) }

\* jsonify(body), code
Reply(body, code) == [body |-> body, code |-> code]

\* Lines 178-191: the summary and the reply, from the results list.
BatchReply(rs) ==
    LET total_images == Len(rs)
        good_products == Cardinality({ i \in DOMAIN rs : rs[i].final_decision = "GOOD" })
        defective_products == total_images - good_products
    IN  Reply([ status  |-> "success",
                summary |-> [ total_images       |-> total_images,
                              good_products      |-> good_products,
                              defective_products |-> defective_products,
                              defect_rate        |->
                                  IF total_images > 0
                                  THEN Fraction(defective_products * 100, total_images)
                                  ELSE Fraction(0, 1) ],
                results |-> rs ],
              200)

\* Lines 165-167: the formatted result, tagged with the index of its image,
\* joins the results.
AppendIndexed_by_result(rs, res, i) ==
    Append(rs, Put(_format_flutter_response(res), "image_index", Len(rs)))

AppendIndexed(rs, res, i) ==
    Append(rs, Put(_format_flutter_response(res), "image_index", i))

\* Lines 146-175, one iteration on the results list: an element that does not
\* decode, or whose run returns nothing, leaves the list as it is.
BatchDetectFold(rs, item, i) ==
    IF item.b64 # "ok"
    THEN rs
    ELSE LET res == process_single_image(item.img)
         IN  IF ~Falsy(res) THEN AppendIndexed(rs, res, i) ELSE rs

RECURSIVE BatchDetectLoop(_, _, _)
\* Lines 145-175 run to the end, from index i and results rs.
BatchDetectLoop(items, i, rs) ==
    IF items = << >>
    THEN rs
    ELSE BatchDetectLoop(Tail(items), i + 1, BatchDetectFold(rs, Head(items), i))

\* The images of the elements that decode (lines 148-158), in order.
DecodedImages(items) ==
    LET decoded == SelectSeq(items, LAMBDA item : item.b64 = "ok")
    IN  [i \in DOMAIN decoded |-> decoded[i].img]

ApiBatchInit ==
    /\ image_files \in ListsOf(ApiItems)
    /\ idx = 0
    /\ results = << >>
    /\ summary = None
    /\ attempted = << >>
    /\ batch_pc = "start"
    /\ returned = None

\* Lines 136-143: a request without images is refused.
BatchDetectStart ==
    /\ batch_pc = "start"
    /\ IF image_files = << >>
       THEN /\ batch_pc' = "done"
            /\ returned' = Reply([error |-> "No images provided"], 400)
       ELSE /\ batch_pc' = "loop"
            /\ UNCHANGED returned
    /\ UNCHANGED <<image_files, idx, results, summary, attempted>>
    /\ UNCHANGED <<server_vars, fmt_vars, api_vars, extract_vars, load_vars, disk_vars>>

\* Lines 145-175: one iteration; idx is the 0-based index of the element.
BatchDetectStep ==
    /\ batch_pc = "loop"
    /\ idx < Len(image_files)
    /\ LET item == image_files[idx + 1]
       IN  /\ attempted' = IF item.b64 = "ok"
                            THEN Append(attempted, item.img.path)
                            ELSE attempted
           /\ results' = BatchDetectFold(results, item, idx)
    /\ idx' = idx + 1
    /\ UNCHANGED <<image_files, summary, batch_pc, returned>>
    /\ UNCHANGED <<server_vars, fmt_vars, api_vars, extract_vars, load_vars, disk_vars>>

\* Lines 177-191.
BatchDetectFinish ==
    /\ batch_pc = "loop"
    /\ idx = Len(image_files)
    /\ returned' = BatchReply(results)
    /\ summary' = returned'.body.summary
    /\ batch_pc' = "done"
    /\ UNCHANGED <<image_files, idx, results, attempted>>
    /\ UNCHANGED <<server_vars, fmt_vars, api_vars, extract_vars, load_vars, disk_vars>>

InitApiBatch ==
    /\ ServerInit
    /\ ApiBatchInit
    /\ FormatterIdle
    /\ ApiIdle
    /\ ExtractIdle
    /\ LoadIdle
    /\ DiskIdle

NextApiBatch ==
    \/ BatchDetectStart
    \/ BatchDetectStep
    \/ BatchDetectFinish

SpecApiBatch == InitApiBatch /\ [][NextApiBatch]_vars

\* C7: the summary of a batch-detect reply counts every image of the request
\* in total_images, the failed ones included.
C7_TotalCountsSubmitted ==
    (batch_pc = "done" /\ returned.code = 200) =>
        returned.body.summary.total_images = Len(image_files)

\* The list with its k-th and (k+1)-th elements exchanged.
Swap(list, k) ==
    [ i \in DOMAIN list |-> IF i = k THEN list[k + 1]
                            ELSE IF i = k + 1 THEN list[k]
                            ELSE list[i] ]

\* The elements of a list, as a set.
Range(list) == { list[i] : i \in DOMAIN list }

\* What the batch-detect handler answers on these images, sent in this order.
ApiSummaryOf(files) ==
    BatchReply(BatchDetectLoop([i \in DOMAIN files |-> Base64Item("ok", files[i])],
                               0, << >>)).body.summary

\* C17: exchanging two neighbours of the input list (and so, any permutation
\* of it) leaves the batch's good_products, defective_products and set of
\* defect types as they are, in the folder batch and in the batch-detect
\* summary, whose defect_rate stays the same too.
C17_OrderIndependent ==
    /\ (batch_pc = "done" /\ image_files # << >>) =>
          \A k \in 1..(Len(image_files) - 1) :
              LET swapped == Swap(image_files, k)
                  other == BatchLoop(swapped, << >>, InitialSummary(swapped)).summary
              IN  /\ returned.summary.good_products = other.good_products
                  /\ returned.summary.defective_products = other.defective_products
                  /\ returned.summary.failed_processing = other.failed_processing
                  /\ Range(returned.summary.defect_types_found) = other.defect_types_found
    /\ (batch_pc = "loop" /\ idx = Len(image_files)) =>
          \A k \in 1..(Len(image_files) - 1) :
              ApiSummaryOf(Swap(image_files, k)) = ApiSummaryOf(image_files)

\* A defective image with two types first and one with another type last:
\* the batch reports the three types.
C17_Witness ==
    /\ batch_pc = "done"
    /\ Len(image_files) >= 3
    /\ image_files[1] = DamagedImage
    /\ image_files[2] = GoodImage
    /\ image_files[Len(image_files)] = OpenImage
    /\ Range(returned.summary.defect_types_found) = {"damaged", "scratch", "open"}
    /\ returned.summary.good_products >= 1

\* The processing times of the runs of a batch that returned a result.
SuccessfulTimes(files) ==
    LET runs == [i \in DOMAIN files |-> process_single_image(files[i])]
        ok == SelectSeq(runs, LAMBDA r : ~Falsy(r))
    IN  [i \in DOMAIN ok |-> ok[i].processing_time]

\* C18: the iteration of a folder batch on an image whose run fails adds one
\* to failed_processing and leaves good_products, defective_products,
\* defect_types_found, processing_times, total_images (which counts the image
\* from the start) and the results as they were; and the returned
\* avg_processing_time is the mean of the times of the successful runs, 0
\* when there is none.
C18_FailureFrame ==
    /\ [][ (batch_pc = "loop" /\ idx' = idx + 1
                              /\ Falsy(process_single_image(image_files[idx + 1]))) =>
             /\ summary'.failed_processing = summary.failed_processing + 1
             /\ summary'.good_products = summary.good_products
             /\ summary'.defective_products = summary.defective_products
             /\ summary'.defect_types_found = summary.defect_types_found
             /\ summary'.processing_times = summary.processing_times
             /\ summary'.total_images = Len(image_files)
             /\ results' = results
         ]_vars
    /\ []( (batch_pc = "done" /\ image_files # << >>) =>
             LET times == SuccessfulTimes(image_files)
             IN  /\ returned.summary.processing_times = times
                 /\ returned.summary.avg_processing_time =
                        IF times = << >>
                        THEN Fraction(0, 1)
                        ELSE Fraction(Sum(times), Len(times)) )

\* A failure between two successes: the mean is over the two.
C18_Witness ==
    /\ batch_pc = "done"
    /\ Len(image_files) = 3
    /\ image_files[1] = GoodImage
    /\ image_files[2] = FailingImage
    /\ image_files[3] = OpenImage
    /\ returned.summary.failed_processing = 1
    /\ returned.summary.processing_times = <<120, 125>>
    /\ returned.summary.avg_processing_time = Fraction(245, 2)

\* The run of the i-th element of the request (counted from 0) gave a result.
Succeeds(items, i) ==
    /\ items[i + 1].b64 = "ok"
    /\ ~Falsy(process_single_image(items[i + 1].img))

\* C19: the batch-detect loop goes through every element of the request,
\* whatever the earlier ones did: every element that decodes is handed to the
\* pipeline, in order; the results hold one entry per element whose run gave
\* a result, which is that result formatted and tagged with the position of
\* the element in the request as image_index; and the image_index values are
\* strictly increasing along the results.
C19_BatchDetectSkipsFailures ==
    batch_pc \in {"loop", "done"} =>
        /\ attempted = [ i \in DOMAIN DecodedImages(SubSeq(image_files, 1, idx)) |->
                            DecodedImages(SubSeq(image_files, 1, idx))[i].path ]
        /\ Len(results) = Cardinality({ i \in 0..(idx - 1) : Succeeds(image_files, i) })
        /\ \A k \in DOMAIN results :
              LET i == results[k].image_index
              IN  /\ i \in 0..(idx - 1)
                  /\ Succeeds(image_files, i)
                  /\ results[k] =
                        Put(_format_flutter_response(process_single_image(image_files[i + 1].img)),
                            "image_index", i)
        /\ \A k \in 1..(Len(results) - 1) :
              results[k].image_index < results[k + 1].image_index
        /\ (batch_pc = "done" /\ image_files # << >>) =>
              /\ idx = Len(image_files)
              /\ returned.code = 200
              /\ returned.body.results = results

\* Five elements of which the second does not decode and the fourth fails in
\* the pipeline: the results carry the indices 0, 2 and 4.
C19_Witness ==
    /\ batch_pc = "done"
    /\ Len(image_files) = 5
    /\ image_files[2].b64 = "bad"
    /\ image_files[4] = Base64Item("ok", FailingImage)
    /\ Len(returned.body.results) = 3
    /\ returned.body.results[1].image_index = 0
    /\ returned.body.results[2].image_index = 2
    /\ returned.body.results[3].image_index = 4

\* C16: every batch-detect request ends with a summary whose defect_rate is
\* defective_products / total_images * 100, and 0 when total_images is 0: a
\* batch without images gets such a summary too, not an error.
C16_DefectRate ==
    batch_pc = "done" =>
        /\ Has(returned.body, "summary")
        /\ LET sm == returned.body.summary
           IN  sm.defect_rate =
                   IF sm.total_images = 0
                   THEN Fraction(0, 1)
                   ELSE Fraction(sm.defective_products * 100, sm.total_images)

(***************************************************************************)
(* The formatter on internal results, well formed or not.                  *)
(***************************************************************************)

\* d without its key k
Drop(d, k) == [j \in DOMAIN d \ {k} |-> d[j]]

\* The results process_single_image can return.
PipelineResults ==
    { process_single_image(Image("temp.jpg", sc, "ok", cl, df, tm, rd, "ok")) :
        sc \in Scores, cl \in {"ok", "none"}, df \in DefectResults, tm \in Times,
        rd \in {"ok", "fail"} }

\* A result with one defect: a key removed, a number replaced by something
\* that is no number, a classification or a bounding box that lacks a key.
Damaged(res) ==
    { Drop(res, k) : k \in DOMAIN res }
    \cup { [res EXCEPT !.anomaly_detection = Drop(@, k)] :
             k \in DOMAIN res.anomaly_detection }
    \cup { [res EXCEPT !.anomaly_detection.anomaly_score = NonNumeric],
           [res EXCEPT !.processing_time = NonNumeric] }
    \cup ( IF Falsy(res.defect_classification)
           THEN {}
           ELSE { [res EXCEPT !.defect_classification = Drop(@, k)] :
                    k \in DOMAIN res.defect_classification }
                \cup { [res EXCEPT !.defect_classification.bounding_boxes[1].value[1] =
                                      Drop(@, k)] : k \in BBoxKeys } )

FormatInputs == PipelineResults \cup UNION { Damaged(res) : res \in PipelineResults }

InitFormat ==
    /\ ServerInit
    /\ BatchIdle
    /\ fmt_input \in FormatInputs
    /\ fmt_output = None
    /\ ApiIdle
    /\ ExtractIdle
    /\ LoadIdle
    /\ DiskIdle

\* One call of _format_flutter_response.
Format ==
    /\ Falsy(fmt_output)
    /\ fmt_output' = _format_flutter_response(fmt_input)
    /\ UNCHANGED fmt_input
    /\ UNCHANGED <<server_vars, batch_vars, api_vars, extract_vars, load_vars, disk_vars>>

NextFormat == Format

SpecFormat == InitFormat /\ [][NextFormat]_vars

\* The projection of a result fails: a key the formatter indexes is missing,
\* or the time or the score cannot be rounded.
ProjectionFails(res) ==
    \/ \E k \in {"final_decision", "processing_time", "timestamp", "anomaly_detection"} :
         ~Has(res, k)
    \/ Has(res, "processing_time") /\ ~IsNumeric(res.processing_time)
    \/ /\ Has(res, "anomaly_detection")
       /\ \/ \E k \in {"anomaly_score", "decision", "threshold_used"} :
               ~Has(res.anomaly_detection, k)
          \/ /\ Has(res.anomaly_detection, "anomaly_score")
             /\ ~IsNumeric(res.anomaly_detection.anomaly_score)
    \/ /\ Has(res, "defect_classification")
       /\ ~Falsy(res.defect_classification)
       /\ \/ ~Has(res.defect_classification, "detected_defects")
          \/ /\ Has(res.defect_classification, "bounding_boxes")
             /\ \E i \in DOMAIN res.defect_classification.bounding_boxes :
                  \E j \in DOMAIN res.defect_classification.bounding_boxes[i].value :
                    ~(BBoxKeys \subseteq
                        DOMAIN res.defect_classification.bounding_boxes[i].value[j])

\* C10: _format_flutter_response never lets an exception out: it always
\* returns an object with a status, and whenever the projection of the result
\* fails that object has status error (and final_decision ERROR).
C10_FormatterNeverRaises ==
    ~Falsy(fmt_output) =>
        /\ ~Has(fmt_output, "raised")
        /\ Has(fmt_output, "status")
        /\ fmt_output.status \in {"success", "error"}
        /\ ProjectionFails(fmt_input) =>
             (fmt_output.status = "error" /\ fmt_output.final_decision = "ERROR")

C10_Witness ==
    /\ ~Falsy(fmt_output)
    /\ ProjectionFails(fmt_input)
    /\ Has(fmt_input, "anomaly_detection")
    /\ Has(fmt_input.anomaly_detection, "anomaly_score")
    /\ ~IsNumeric(fmt_input.anomaly_detection.anomaly_score)
    /\ fmt_output.status = "error"

\* The formatter was called and built its response without failure.
Formatted == ~Falsy(fmt_output) /\ fmt_output.status = "success"

\* C13: the response formatted from a result whose final_decision is GOOD has
\* a null defect_classification, no detected_defects, defect_count 0 and no
\* bounding_boxes; and every GOOD result of the pipeline is formatted without
\* failure.
C13_GoodHasNoDefects ==
    (~Falsy(fmt_output) /\ Has(fmt_input, "final_decision")
                        /\ fmt_input.final_decision = "GOOD") =>
        /\ fmt_input \in PipelineResults => Formatted
        /\ Formatted =>
             /\ fmt_output.defect_classification = None
             /\ fmt_output.detected_defects = << >>
             /\ fmt_output.defect_count = 0
             /\ fmt_output.bounding_boxes = << >>

C13_Witness ==
    /\ Formatted
    /\ fmt_input \in PipelineResults
    /\ fmt_input.final_decision = "GOOD"
    /\ fmt_input.anomaly_detection.anomaly_score = 69996
    /\ fmt_output.final_decision = "GOOD"
    /\ fmt_output.defect_count = 0

\* The number of boxes grouped under the types that precede the i-th one.
BoxesBefore(items, i) == Sum([m \in 1..(i - 1) |-> Len(items[m].value)])

\* C14: the response formatted from a result with a classification lists one
\* entry per internal bounding box, as many as the per-type lists hold
\* together; the entries of a type follow those of the types before it, in
\* the order of its list; each carries its type as defect_type and the box's
\* x, y, width, height, center_x, center_y and area, and nothing else; and
\* final_decision is the result's.
C14_BoxesFlattened ==
    Formatted =>
        /\ fmt_output.final_decision = fmt_input.final_decision
        /\ ~Falsy(Get(fmt_input, "defect_classification", None)) =>
             LET items == Get(fmt_input.defect_classification, "bounding_boxes", << >>)
                 flat == fmt_output.bounding_boxes
             IN  /\ Len(flat) = BoxesBefore(items, Len(items) + 1)
                 /\ \A i \in DOMAIN items : \A j \in DOMAIN items[i].value :
                       LET entry == flat[BoxesBefore(items, i) + j]
                       IN  /\ DOMAIN entry = BBoxKeys \cup {"defect_type"}
                           /\ entry.defect_type = items[i].key
                           /\ \A k \in BBoxKeys : entry[k] = items[i].value[j][k]

C14_Witness ==
    /\ Formatted
    /\ fmt_input.final_decision = "DEFECT"
    /\ ~Falsy(Get(fmt_input, "defect_classification", None))
    /\ Has(fmt_input.defect_classification, "bounding_boxes")
    /\ Len(fmt_input.defect_classification.bounding_boxes) = 2
    /\ Len(fmt_output.bounding_boxes) = 3
    /\ fmt_output.bounding_boxes[2].defect_type = "damaged"
    /\ fmt_output.bounding_boxes[2].x = 40
    /\ fmt_output.bounding_boxes[3].defect_type = "scratch"

(***************************************************************************)
(* The facade UnifiedDefectDetector (main.py) and the endpoints of          *)
(* api_server.py over it, one call or request at a time.  detector is      *)
(*   "absent"    create_detector failed: the server's self.detector is None *)
(*   "unloaded"  the detector exists, its models are not loaded            *)
(*   "ready"     the models are loaded and the processors built            *)
(***************************************************************************)

\* The lists a single call or request of this part carries.
MaxApiImages == 2

ShortListsOf(S) == UNION { [1..n -> S] : n \in 0..MaxApiImages }

\* The images those lists are made of: a good product, a defective one with
\* two types of defect, and one on which the anomaly inference fails.
ListedImages == {GoodImage, DamagedImage, FailingImage}

\* A call that returns a value, and a call that lets an exception out.
Returns(v) == [returns |-> v]

Raises(exc) == [raises |-> exc]

\* What a call did: what it gave back and the detection-core calls it made.
Did(out, calls) == [out |-> out, calls |-> calls]

\* main.py lines 90-95.  The processors exist exactly when the models loaded
\* (lines 57-58, 68-69, 83-87).
is_ready == detector = "ready"

\* The detection-core calls of one run of process_single_image (lines 45, 62).
CoreCalls(img) ==
    IF img.anomaly = "ok" /\ GateClassifies(detect_anomaly(img.score)) THEN 2 ELSE 1

RECURSIVE CoreCallsOf(_)
CoreCallsOf(imgs) ==
    IF imgs = << >> THEN 0 ELSE CoreCalls(Head(imgs)) + CoreCallsOf(Tail(imgs))

\* main.py lines 98-112.
process_image_unguarded(img) ==
    Did(Returns(process_single_image(img)), CoreCalls(img))

process_image(img) ==
    IF ~is_ready
    THEN Did(Raises("RuntimeError"), 0)
    ELSE Did(Returns(process_single_image(img)), CoreCalls(img))

\* main.py lines 114-128.
process_batch(files, types) ==
    IF ~is_ready
    THEN Did(Raises("RuntimeError"), 0)
    ELSE Did(Returns(process_batch_images(files, types)), CoreCallsOf(files))

\* main.py lines 163-176.
facade_detect_anomaly(img) ==
    IF ~is_ready
    THEN Did(Raises("RuntimeError"), 0)
    ELSE Did(CASE img.anomaly = "ok" -> Returns(detect_anomaly(img.score))
               [] img.anomaly = "none" -> Returns(None)
               [] OTHER -> Raises("InferenceError"),
             1)

\* main.py lines 178-192.
facade_classify_defects(img) ==
    IF ~is_ready
    THEN Did(Raises("RuntimeError"), 0)
    ELSE Did(IF img.classify = "raise"
             THEN Raises("InferenceError")
             ELSE Returns(classify_defects(img.classify, img.defects)),
             1)

\* main.py lines 35-38: the device asked for, or config.py's when none is
\* (None and "" are both falsy), and the CPU when CUDA is asked for and absent.
UnifiedDefectDetector_device(requested, cuda_is_available) ==
    LET chosen == IF requested # "" THEN requested ELSE DEVICE
    IN  IF chosen = "cuda" /\ ~cuda_is_available THEN "cpu" ELSE chosen

\* The devices a detector may run on.
Devices ==
    { UnifiedDefectDetector_device(requested, available) :
        requested \in {"", "cuda", "cpu"}, available \in BOOLEAN }

\* main.py lines 195-204.
get_system_info ==
    [ device            |-> device,
      models_loaded     |-> is_ready,
      system_ready      |-> is_ready,
      anomaly_threshold |-> main_ANOMALY_THRESHOLD,
      defect_threshold  |-> main_DEFECT_CONFIDENCE_THRESHOLD,
      supported_classes |-> SPECIFIC_DEFECT_CLASSES ]

\* The two thresholds of main.py as one value.
Thresholds(anomaly, defect) == [anomaly |-> anomaly, defect |-> defect]

\* main.py lines 206-222 on the JSON body the handler read (api_server.py
\* lines 206-210): a key the body lacks arrives as None, as a null does.
update_thresholds_reset(cfg, body) ==
    LET anomaly_threshold == Get(body, "anomaly_threshold", Null)
        defect_threshold == Get(body, "defect_threshold", Null)
    IN  Thresholds(IF anomaly_threshold # Null THEN anomaly_threshold ELSE ANOMALY_THRESHOLD,
                   IF defect_threshold # Null THEN defect_threshold
                   ELSE DEFECT_CONFIDENCE_THRESHOLD)

update_thresholds(cfg, body) ==
    LET anomaly_threshold == Get(body, "anomaly_threshold", Null)
        defect_threshold == Get(body, "defect_threshold", Null)
    IN  Thresholds(IF anomaly_threshold # Null THEN anomaly_threshold ELSE cfg.anomaly,
                   IF defect_threshold # Null THEN defect_threshold ELSE cfg.defect)

(***************************************************************************)
(* The requests.                                                           *)
(***************************************************************************)

\* /api/detect-image.  kind is
\*   "file"        a multipart upload of the image
\*   "base64"      a JSON body whose image_base64 decodes to the image
\*   "bad_base64"  a JSON body whose image_base64 b64decode rejects
\*   "not_string"  a JSON body whose image_base64 is no string
\*   "bad_json"    a body request.json cannot parse
\*   "no_image"    a JSON body without image_base64
\*   "unwritable"  a decodable image whose temporary file cannot be written
DetectRequests ==
    { [kind |-> k, img |-> img] : k \in {"file", "base64"}, img \in BatchImages }
    \cup { [kind |-> k, img |-> GoodImage] :
             k \in {"bad_base64", "not_string", "bad_json", "no_image", "unwritable"} }

\* /api/batch-detect: a JSON body with an images list, one without the key,
\* and a body request.json cannot parse.
BatchRequests ==
    { [kind |-> "images", images |-> l] :
        l \in ShortListsOf({ Base64Item("ok", img) : img \in ListedImages }
                           \cup { Base64Item("bad", GoodImage) }) }
    \cup { [kind |-> k, images |-> << >>] : k \in {"no_images_key", "bad_json"} }

\* /api/update-thresholds: a JSON body, empty or not, with or without the
\* threshold keys, with a number, a null or something else (a string) as the
\* value of a threshold, and a body request.json cannot parse.
UpdateRequests ==
    { [kind |-> "json", body |-> b] :
        b \in UpdateBodies \cup { [sensitivity |-> 50000], << >>,
                                 [anomaly_threshold |-> Null],
                                 [anomaly_threshold |-> 50000, defect_threshold |-> Null],
                                 [anomaly_threshold |-> NonNumeric],
                                 [defect_threshold |-> NonNumeric],
                                 [anomaly_threshold |-> 50000,
                                  defect_threshold |-> NonNumeric] } }
    \cup { [kind |-> "bad_json", body |-> << >>] }

(***************************************************************************)
(* The handlers (api_server.py lines 54-218).                               *)
(***************************************************************************)

\* Lines 57-61.
health_check ==
    Reply([ status         |-> "ok",
            detector_ready |-> IF detector # "absent" THEN is_ready ELSE FALSE,
            timestamp      |-> "ts" ], 200)

\* Lines 66-76.
system_info ==
    IF detector = "absent"
    THEN Reply([error |-> "Detector not initialized"], 500)
    ELSE Reply([status |-> "success", data |-> get_system_info], 200)

\* Lines 122-127: the except clause of detect_image formats the name of the
\* temporary file from the local temp_id, which line 102 assigns.
DetectImageExcept(temp_id_assigned, msg) ==
    IF temp_id_assigned
    THEN Reply([error |-> msg], 500)
    ELSE Raises("UnboundLocalError")

\* Lines 81-127.
detect_image(req) ==
    IF detector = "absent" \/ ~is_ready
    THEN Did(Reply([error |-> "Detection system not ready"], 500), 0)
    ELSE CASE req.kind = "bad_json" ->
                Did(DetectImageExcept(FALSE, "400 Bad Request"), 0)
           [] req.kind = "not_string" ->
                Did(DetectImageExcept(FALSE, "object has no attribute 'startswith'"), 0)
           [] req.kind = "bad_base64" ->
                Did(DetectImageExcept(FALSE, "Incorrect padding"), 0)
           [] req.kind = "no_image" ->
                Did(Reply([error |-> "No image provided"], 400), 0)
           [] req.kind = "unwritable" ->
                Did(DetectImageExcept(TRUE, "No space left on device"), 0)
           [] OTHER ->
                LET ran == process_image(req.img)
                IN  IF ~Falsy(ran.out.returns)
                    THEN Did(Reply(_format_flutter_response(ran.out.returns), 200), ran.calls)
                    ELSE Did(Reply([error |-> "Processing failed"], 500), ran.calls)

\* Lines 132-194.
batch_detect(req) ==
    IF detector = "absent" \/ ~is_ready
    THEN Did(Reply([error |-> "Detection system not ready"], 500), 0)
    ELSE CASE req.kind = "bad_json" ->
                Did(Reply([error |-> "400 Bad Request"], 500), 0)
           [] req.kind = "no_images_key" \/ req.images = << >> ->
                Did(Reply([error |-> "No images provided"], 400), 0)
           [] OTHER ->
                Did(BatchReply(BatchDetectLoop(req.images, 0, << >>)),
                    CoreCallsOf(DecodedImages(req.images)))

\* Lines 199-218, the reply.
update_thresholds_reply(req) ==
    IF detector = "absent"
    THEN Reply([error |-> "Detector not initialized"], 500)
    ELSE CASE req.kind = "bad_json" -> Reply([error |-> "400 Bad Request"], 500)
           [] Falsy(req.body) -> Reply([error |-> "No data provided"], 400)
           [] OTHER -> Reply([ status  |-> "success",
                               message |-> "Thresholds updated successfully" ], 200)

\* Lines 199-218, the thresholds after the request.
update_thresholds_effect(cfg, req) ==
    IF detector = "absent" \/ req.kind = "bad_json" \/ Falsy(req.body)
    THEN cfg
    ELSE update_thresholds(cfg, req.body)

(***************************************************************************)
(* One call of the facade or one request of the server per step.           *)
(***************************************************************************)

\* A call or request, by its name and what it carries.
Call(op, arg) == [op |-> op, arg |-> arg]

ApiInit ==
    /\ detector \in {"absent", "unloaded", "ready"}
    /\ device \in Devices
    /\ api_call = None
    /\ api_reply = None
    /\ core_calls = 0

\* A step of this part records the call, what it gave back and the core calls
\* it made, and leaves the rest alone.
Record(op, arg, did) ==
    /\ api_call' = Call(op, arg)
    /\ api_reply' = did.out
    /\ core_calls' = did.calls
    /\ UNCHANGED <<detector, device, thread_vars, batch_vars, fmt_vars>>
    /\ UNCHANGED <<extract_vars, load_vars, disk_vars>>

\* A load of the models, from config paths or custom ones (main.py lines
\* 65-77), on a detector in any state: the models load and the detector is
\* ready, or one does not (model_loader.py line 41 clears models_loaded) and
\* it is not, whatever it was before.
LoadingCall(op) ==
    /\ \E success \in BOOLEAN :
         /\ detector' = IF success THEN "ready" ELSE "unloaded"
         /\ api_call' = Call(op, << >>)
         /\ api_reply' = Returns(<<success>>)
    /\ core_calls' = 0
    /\ UNCHANGED device
    /\ UNCHANGED <<main_ANOMALY_THRESHOLD, main_DEFECT_CONFIDENCE_THRESHOLD>>
    /\ UNCHANGED <<thread_vars, batch_vars, fmt_vars>>
    /\ UNCHANGED <<extract_vars, load_vars, disk_vars>>

\* load_models (main.py lines 65-70).
LoadModels ==
    /\ detector # "absent"
    /\ LoadingCall("load_models")

\* load_custom_models (main.py lines 72-77): the same on the paths given.
LoadCustomModels ==
    /\ detector # "absent"
    /\ LoadingCall("load_custom_models")

ProcessImageCall ==
    /\ detector # "absent"
    /\ \E img \in BatchImages : Record("process_image", img, process_image(img))
    /\ UNCHANGED <<main_ANOMALY_THRESHOLD, main_DEFECT_CONFIDENCE_THRESHOLD>>

ProcessBatchCall ==
    /\ detector # "absent"
    /\ \E files \in ShortListsOf(ListedImages) :
         \E types \in OrdersOf(BatchLoop(files, << >>,
                                         InitialSummary(files)).summary.defect_types_found) :
            Record("process_batch", files, process_batch(files, types))
    /\ UNCHANGED <<main_ANOMALY_THRESHOLD, main_DEFECT_CONFIDENCE_THRESHOLD>>

DetectAnomalyCall ==
    /\ detector # "absent"
    /\ \E img \in BatchImages : Record("detect_anomaly", img, facade_detect_anomaly(img))
    /\ UNCHANGED <<main_ANOMALY_THRESHOLD, main_DEFECT_CONFIDENCE_THRESHOLD>>

ClassifyDefectsCall ==
    /\ detector # "absent"
    /\ \E img \in BatchImages : Record("classify_defects", img, facade_classify_defects(img))
    /\ UNCHANGED <<main_ANOMALY_THRESHOLD, main_DEFECT_CONFIDENCE_THRESHOLD>>

HealthCheck ==
    /\ Record("health", << >>, Did(health_check, 0))
    /\ UNCHANGED <<main_ANOMALY_THRESHOLD, main_DEFECT_CONFIDENCE_THRESHOLD>>

GetSystemInfo ==
    /\ Record("system-info", << >>, Did(system_info, 0))
    /\ UNCHANGED <<main_ANOMALY_THRESHOLD, main_DEFECT_CONFIDENCE_THRESHOLD>>

DetectImage ==
    /\ \E req \in DetectRequests : Record("detect-image", req, detect_image(req))
    /\ UNCHANGED <<main_ANOMALY_THRESHOLD, main_DEFECT_CONFIDENCE_THRESHOLD>>

BatchDetect ==
    /\ \E req \in BatchRequests : Record("batch-detect", req, batch_detect(req))
    /\ UNCHANGED <<main_ANOMALY_THRESHOLD, main_DEFECT_CONFIDENCE_THRESHOLD>>

UpdateThresholds ==
    \E req \in UpdateRequests :
        LET cfg == update_thresholds_effect(
                       Thresholds(main_ANOMALY_THRESHOLD, main_DEFECT_CONFIDENCE_THRESHOLD),
                       req)
        IN  /\ Record("update-thresholds", req, Did(update_thresholds_reply(req), 0))
            /\ main_ANOMALY_THRESHOLD' = cfg.anomaly
            /\ main_DEFECT_CONFIDENCE_THRESHOLD' = cfg.defect

InitApi ==
    /\ ServerInit
    /\ BatchIdle
    /\ FormatterIdle
    /\ ApiInit
    /\ ExtractIdle
    /\ LoadIdle
    /\ DiskIdle

NextApi ==
    \/ LoadModels
    \/ LoadCustomModels
    \/ ProcessImageCall
    \/ ProcessBatchCall
    \/ DetectAnomalyCall
    \/ ClassifyDefectsCall
    \/ HealthCheck
    \/ GetSystemInfo
    \/ DetectImage
    \/ BatchDetect
    \/ UpdateThresholds

SpecApi == InitApi /\ [][NextApi]_vars

\* The last step was a request to an endpoint, and the handler answered it.
Answered == ~Falsy(api_reply) /\ Has(api_reply, "body")

\* C11: every reply of every endpoint carries a status that is success or
\* error.
C11_EveryReplyHasStatus ==
    Answered =>
        /\ Has(api_reply.body, "status")
        /\ api_reply.body.status \in {"success", "error"}

\* C12: every detect-image request is answered by its handler; no exception
\* leaves it, whatever is wrong with the request.
C12_DetectImageAlwaysAnswers ==
    (~Falsy(api_call) /\ api_call.op = "detect-image") =>
        /\ ~Has(api_reply, "raises")
        /\ Answered

\* A threshold the body supplies: the key with a value, a null being the
\* optional argument left out.
Supplied(body, k) == Has(body, k) /\ body[k] # Null

\* C15: an update-thresholds request leaves a threshold its body does not
\* supply as it was, whatever the body says about the other one, and an accepted
\* request sets each threshold its body names to the value given; a body that
\* names neither changes nothing.
C15_UpdatesIndependent ==
    [][ api_call'.op = "update-thresholds" =>
          LET body == api_call'.arg.body
              accepted == api_reply'.code = 200
          IN  /\ ~Supplied(body, "anomaly_threshold") =>
                   main_ANOMALY_THRESHOLD' = main_ANOMALY_THRESHOLD
              /\ ~Supplied(body, "defect_threshold") =>
                   main_DEFECT_CONFIDENCE_THRESHOLD' = main_DEFECT_CONFIDENCE_THRESHOLD
              /\ (accepted /\ Supplied(body, "anomaly_threshold")) =>
                   main_ANOMALY_THRESHOLD' = body.anomaly_threshold
              /\ (accepted /\ Supplied(body, "defect_threshold")) =>
                   main_DEFECT_CONFIDENCE_THRESHOLD' = body.defect_threshold
      ]_vars

\* Only the defect threshold was sent, after an update of the anomaly
\* threshold: the anomaly threshold kept its updated value.
C15_Witness ==
    /\ ~Falsy(api_call)
    /\ api_call.op = "update-thresholds"
    /\ api_call.arg.body = [defect_threshold |-> 80000]
    /\ api_reply.code = 200
    /\ main_ANOMALY_THRESHOLD = 50000
    /\ main_DEFECT_CONFIDENCE_THRESHOLD = 80000

\* C20: while the models are not loaded no call reaches the detection core:
\* process_image, process_batch, detect_anomaly and classify_defects raise
\* RuntimeError, and the detect-image and batch-detect handlers answer with an
\* error reply, whatever the request holds.
C20_NotReadyNoInference ==
    (detector # "ready" /\ ~Falsy(api_call)) =>
        /\ core_calls = 0
        /\ api_call.op \in {"process_image", "process_batch",
                            "detect_anomaly", "classify_defects"} =>
             /\ Has(api_reply, "raises")
             /\ api_reply.raises = "RuntimeError"
        /\ api_call.op \in {"detect-image", "batch-detect"} =>
             /\ Answered
             /\ api_reply.code = 500
             /\ DOMAIN api_reply.body = {"error"}

\* process_image on a defective image before the models are loaded.
C20_Witness ==
    /\ detector = "unloaded"
    /\ ~Falsy(api_call)
    /\ api_call.op = "process_image"
    /\ api_call.arg = OpenImage
    /\ Has(api_reply, "raises")
    /\ core_calls = 0

\* An update request that is malformed: no body, a body that is no JSON, or a
\* threshold whose value is no number.
Malformed(req) ==
    \/ req.kind = "bad_json"
    \/ Falsy(req.body)
    \/ \E k \in {"anomaly_threshold", "defect_threshold"} :
         Has(req.body, k) /\ req.body[k] = NonNumeric

\* C21: a malformed update-thresholds request is answered with an error and
\* leaves both thresholds as they were.
C21_MalformedUpdateRejected ==
    [][ (api_call'.op = "update-thresholds" /\ Malformed(api_call'.arg)) =>
          /\ api_reply'.code >= 400
          /\ Has(api_reply'.body, "error")
          /\ main_ANOMALY_THRESHOLD' = main_ANOMALY_THRESHOLD
          /\ main_DEFECT_CONFIDENCE_THRESHOLD' = main_DEFECT_CONFIDENCE_THRESHOLD
      ]_vars

(***************************************************************************)
(* The bounding-box extraction of DetectionCore.classify_defects           *)
(* (core/detection.py), after the design's BoundingBoxExtractor: the       *)
(* per-pixel class map arrives as its connected components, in the order   *)
(* the labelling finds them, each with its class id, its tight bounding    *)
(* rectangle and its number of pixels.                                     *)
(***************************************************************************)

\* config.py lines 55-57.  MIN_DEFECT_PERCENTAGE is 0.005, counted here in
\* thousandths.
MIN_DEFECT_PIXELS == 50
MIN_DEFECT_PERCENTAGE == 5
MIN_BBOX_AREA == 100

\* The classes that are defects: every class but the background.
DefectClassIds == DOMAIN SPECIFIC_DEFECT_CLASSES \ {0}

\* The components a map is made of.
MaxComponents == 3

Component(cid, x, y, w, h, pixels) ==
    [ class_id |-> cid, x |-> x, y |-> y, width |-> w, height |-> h,
      pixel_count |-> pixels ]

\* The shapes of a component: a large blob; a blob that passes both
\* per-component thresholds; one of area 40; a sparse one of area 99 with 30
\* pixels; a dense one of area 81 with 60 pixels.
Shapes ==
    { [width |-> 40, height |-> 40, pixel_count |-> 1400],
      [width |-> 10, height |-> 12, pixel_count |-> 60],
      [width |-> 8,  height |-> 5,  pixel_count |-> 40],
      [width |-> 11, height |-> 9,  pixel_count |-> 30],
      [width |-> 9,  height |-> 9,  pixel_count |-> 60] }

\* A map of total_pixels pixels: a 100 x 100 one, or one of IMAGE_SIZE
\* (config.py line 50, 512 x 512).
MapSizes == {10000, 262144}

ClassMaps ==
    { [ total_pixels |-> total,
        components   |-> [ i \in DOMAIN shapes |->
                             Component(cids[i], 50 * (i - 1), 10, shapes[i].width,
                                       shapes[i].height, shapes[i].pixel_count) ] ] :
        total \in MapSizes,
        <<cids, shapes>> \in
            UNION { [1..n -> {1, 4}] \X [1..n -> Shapes] : n \in 0..MaxComponents } }

\* Step 1: the components of a class, in the order of the labelling.
ComponentsOf(map, cid) == SelectSeq(map.components, LAMBDA c : c.class_id = cid)

\* The pixels of a class.
ClassPixels(map, cid) ==
    Sum([ i \in DOMAIN ComponentsOf(map, cid) |-> ComponentsOf(map, cid)[i].pixel_count ])

\* Step 3: the per-component filter.
Survives_pixels_only(c) == c.pixel_count >= MIN_DEFECT_PIXELS

Survives(c) ==
    /\ c.pixel_count >= MIN_DEFECT_PIXELS
    /\ c.width * c.height >= MIN_BBOX_AREA

\* Step 4: the per-class prevalence filter, on the raw pixels of the class.
Prevalent_always(map, cid) == ClassPixels(map, cid) > 0

Prevalent_of_survivors(map, cid) ==
    LET kept == SelectSeq(ComponentsOf(map, cid), Survives)
    IN  /\ kept # << >>
        /\ Sum([i \in DOMAIN kept |-> kept[i].pixel_count]) * 1000
             >= MIN_DEFECT_PERCENTAGE * map.total_pixels

Prevalent(map, cid) ==
    /\ ClassPixels(map, cid) > 0
    /\ ClassPixels(map, cid) * 1000 >= MIN_DEFECT_PERCENTAGE * map.total_pixels

\* Step 2 and 3: the boxes of a class.
BoxesOf(map, cid) ==
    LET kept == SelectSeq(ComponentsOf(map, cid), Survives)
    IN  [ i \in DOMAIN kept |->
            BBox(kept[i].x, kept[i].y, kept[i].width, kept[i].height,
                 SPECIFIC_DEFECT_CLASSES[cid], cid) ]

\* Step 5: the ids of the classes surviving both filters.
ReportedIds(map) == { cid \in DefectClassIds : Prevalent(map, cid) }

\* Step 6: the raw count and share of every class; the background has the
\* pixels no defect class has.
RawPixels(map, cid) ==
    IF cid = 0
    THEN map.total_pixels
           - Sum([c \in 1..Cardinality(DefectClassIds) |-> ClassPixels(map, c)])
    ELSE ClassPixels(map, cid)

ClassIdOf(name) ==
    CHOOSE cid \in DOMAIN SPECIFIC_DEFECT_CLASSES : SPECIFIC_DEFECT_CLASSES[cid] = name

ClassDistribution_reported(map) ==
    [ name \in { SPECIFIC_DEFECT_CLASSES[cid] : cid \in ReportedIds(map) } |->
        ClassStat(ClassIdOf(name), RawPixels(map, ClassIdOf(name)), map.total_pixels) ]

ClassDistribution(map) ==
    [ name \in { SPECIFIC_DEFECT_CLASSES[cid] : cid \in DOMAIN SPECIFIC_DEFECT_CLASSES } |->
        ClassStat(ClassIdOf(name), RawPixels(map, ClassIdOf(name)), map.total_pixels) ]

\* The DefectClassification of a map.  detected_defects is the set of the
\* reported names collapsed into a list, with no sort (design note on the
\* implicit set ordering): `detected` is the order the set was enumerated
\* in.  bounding_boxes is filled class by class, in the order of the ids.
BoundingBoxExtractor(map, detected) ==
    LET ids == SelectSeq([cid \in 1..Cardinality(DefectClassIds) |-> cid],
                         LAMBDA cid : cid \in ReportedIds(map))
    IN  [ predicted_mask     |-> map,
          detected_defects   |-> detected,
          bounding_boxes     |-> [ i \in DOMAIN ids |->
                                     Item(SPECIFIC_DEFECT_CLASSES[ids[i]], BoxesOf(map, ids[i])) ],
          class_distribution |-> ClassDistribution(map) ]

InitExtract ==
    /\ ServerInit
    /\ BatchIdle
    /\ FormatterIdle
    /\ ApiIdle
    /\ LoadIdle
    /\ DiskIdle
    /\ class_map \in ClassMaps
    /\ extractions = << >>

\* One run of the extraction on the map.
Extract ==
    /\ Len(extractions) < 2
    /\ \E detected \in OrdersOf({ SPECIFIC_DEFECT_CLASSES[cid] : cid \in ReportedIds(class_map) }) :
         extractions' = Append(extractions, BoundingBoxExtractor(class_map, detected))
    /\ UNCHANGED class_map
    /\ UNCHANGED <<server_vars, batch_vars, fmt_vars, api_vars, load_vars, disk_vars>>

NextExtract == Extract

SpecExtract == InitExtract /\ [][NextExtract]_vars

\* What an extraction reports.
Names(e) == { e.detected_defects[i] : i \in DOMAIN e.detected_defects }

Keys(e) == { e.bounding_boxes[i].key : i \in DOMAIN e.bounding_boxes }

Boxes(e) ==
    UNION { { e.bounding_boxes[i].value[j] : j \in DOMAIN e.bounding_boxes[i].value } :
            i \in DOMAIN e.bounding_boxes }

\* The pixels the map gives a class, and whether that is a share of the map
\* below MIN_DEFECT_PERCENTAGE.
MapPixels(cid) ==
    Sum([ i \in DOMAIN class_map.components |->
            IF class_map.components[i].class_id = cid
            THEN class_map.components[i].pixel_count ELSE 0 ])

ShareBelow(cid) == MapPixels(cid) * 1000 < MIN_DEFECT_PERCENTAGE * class_map.total_pixels

ComponentPasses(c) ==
    ~(c.pixel_count < MIN_DEFECT_PIXELS \/ c.width * c.height < MIN_BBOX_AREA)

Extracted == extractions # << >>

\* C22: every bounding box of every classification has a positive width and
\* height, an area that is width * height, and an area of at least
\* MIN_BBOX_AREA.
C22_BoxesWellFormed ==
    \A n \in DOMAIN extractions : \A b \in Boxes(extractions[n]) :
        /\ b.width > 0
        /\ b.height > 0
        /\ b.area = b.width * b.height
        /\ b.area >= MIN_BBOX_AREA

\* A map with a component that fails on its area alone, of a class that is
\* reported with a box of another component.
C22_Witness ==
    /\ Extracted
    /\ \E i, j \in DOMAIN class_map.components :
         LET c == class_map.components[i]
             d == class_map.components[j]
         IN  /\ c.class_id = d.class_id
             /\ c.pixel_count >= MIN_DEFECT_PIXELS
             /\ c.width * c.height < MIN_BBOX_AREA
             /\ ComponentPasses(d)
             /\ \E b \in Boxes(extractions[1]) : b.x = d.x /\ b.class_id = d.class_id

\* C23: a class whose share of the pixels is below MIN_DEFECT_PERCENTAGE is in
\* neither detected_defects nor bounding_boxes, whatever its components are.
C23_RareClassDiscarded ==
    \A n \in DOMAIN extractions : \A cid \in DefectClassIds :
        ShareBelow(cid) =>
            /\ SPECIFIC_DEFECT_CLASSES[cid] \notin Names(extractions[n])
            /\ SPECIFIC_DEFECT_CLASSES[cid] \notin Keys(extractions[n])
            /\ \A b \in Boxes(extractions[n]) : b.class_id # cid

\* A class below the share with a component that passes the per-component
\* thresholds, next to a class that is reported.
C23_Witness ==
    /\ Extracted
    /\ \E i \in DOMAIN class_map.components :
         /\ ComponentPasses(class_map.components[i])
         /\ ShareBelow(class_map.components[i].class_id)
    /\ Names(extractions[1]) # {}

\* C24: a class whose components all fall below the per-component thresholds
\* is reported in detected_defects when its pixels reach MIN_DEFECT_PERCENTAGE
\* of the map.
OnlySubThreshold(cid) ==
    /\ MapPixels(cid) > 0
    /\ \A i \in DOMAIN class_map.components :
         class_map.components[i].class_id = cid => ~ComponentPasses(class_map.components[i])

C24_FiltersIndependent ==
    \A n \in DOMAIN extractions : \A cid \in DefectClassIds :
        (OnlySubThreshold(cid) /\ ~ShareBelow(cid)) =>
            SPECIFIC_DEFECT_CLASSES[cid] \in Names(extractions[n])

\* Several components of one class, none of which has MIN_DEFECT_PIXELS
\* pixels, that together reach the share: the class is reported, without a box.
C24_Witness ==
    /\ Extracted
    /\ \E cid \in DefectClassIds :
         /\ OnlySubThreshold(cid)
         /\ ~ShareBelow(cid)
         /\ \A i \in DOMAIN class_map.components :
              class_map.components[i].class_id = cid =>
                  class_map.components[i].pixel_count < MIN_DEFECT_PIXELS
         /\ SPECIFIC_DEFECT_CLASSES[cid] \in Names(extractions[1])
         /\ \A b \in Boxes(extractions[1]) : b.class_id # cid

\* C25: class_distribution has, for every class, the filtered-out ones
\* included, an entry with its raw pixel count and its percentage; every key
\* of bounding_boxes and every name of detected_defects has an entry.
C25_DistributionComplete ==
    \A n \in DOMAIN extractions :
        LET dist == extractions[n].class_distribution
        IN  /\ \A cid \in DefectClassIds :
                 /\ Has(dist, SPECIFIC_DEFECT_CLASSES[cid])
                 /\ dist[SPECIFIC_DEFECT_CLASSES[cid]].class_id = cid
                 /\ dist[SPECIFIC_DEFECT_CLASSES[cid]].pixel_count = MapPixels(cid)
                 /\ dist[SPECIFIC_DEFECT_CLASSES[cid]].percentage
                      = (MapPixels(cid) * 100) \div class_map.total_pixels
            /\ \A name \in Names(extractions[n]) \cup Keys(extractions[n]) : Has(dist, name)

\* The only pixels of class 4 are a component of area 40: the class has no
\* name and no box, and its 40 pixels are in class_distribution.
C25_Witness ==
    /\ Extracted
    /\ MapPixels(4) = 40
    /\ \E i \in DOMAIN class_map.components :
         /\ class_map.components[i].class_id = 4
         /\ class_map.components[i].width * class_map.components[i].height = 40
    /\ "scratch" \notin Names(extractions[1]) \cup Keys(extractions[1])
    /\ extractions[1].class_distribution["scratch"].pixel_count = 40
    /\ Names(extractions[1]) # {}

\* C26: two runs of the extraction on one map under one set of thresholds give
\* the same detected_defects and the same bounding boxes, in the same order,
\* and detected_defects is in ascending order of class id.
Ascending(names) ==
    \A i, j \in DOMAIN names : i < j => ClassIdOf(names[i]) < ClassIdOf(names[j])

C26_ExtractionDeterministic ==
    /\ \A n \in DOMAIN extractions : Ascending(extractions[n].detected_defects)
    /\ \A m, n \in DOMAIN extractions :
         /\ extractions[m].detected_defects = extractions[n].detected_defects
         /\ extractions[m].bounding_boxes = extractions[n].bounding_boxes

(***************************************************************************)
(* Loading the models (models/model_loader.py lines 13-114, main.py lines  *)
(* 40-95).  A model object is told apart by a number; no model is NoModel. *)
(***************************************************************************)

NoModel == 0

\* The model objects a behaviour may build.
MaxModels == 3

\* model_loader.py lines 16-20.
ModelLoader == [anomalib_model |-> NoModel, hrnet_model |-> NoModel, models_loaded |-> FALSE]

\* How the load of a model ends.  Anomalib: the file is there and
\* TorchInferencer builds the model; the file is missing (line 53); or
\* TorchInferencer raises (line 62).  HRNet: loaded; the file is missing
\* (line 68); create_hrnet_model raises (line 76); or a later statement of
\* the try block raises (lines 79-97).
AnomalibLoads == {"ok", "missing", "raises"}

HrnetLoads == {"ok", "missing", "create_raises", "load_raises"}

\* A model object no reference holds yet.
FreshModel ==
    LET held == {loader.anomalib_model, loader.hrnet_model}
                  \cup (IF Falsy(detection_core) THEN {}
                        ELSE {detection_core.anomalib_model, detection_core.hrnet_model})
    IN  1 + CHOOSE m \in held : \A n \in held : n <= m

\* model_loader.py lines 51-64.
_load_anomalib_model(ld, how, obj) ==
    IF how = "ok"
    THEN [loader |-> [ld EXCEPT !.anomalib_model = obj], success |-> TRUE]
    ELSE [loader |-> ld, success |-> FALSE]

\* model_loader.py lines 66-103: line 76 assigns the new model before the
\* checkpoint is read.
_load_hrnet_model(ld, how, obj) ==
    CASE how = "ok"          -> [loader |-> [ld EXCEPT !.hrnet_model = obj], success |-> TRUE]
      [] how = "load_raises" -> [loader |-> [ld EXCEPT !.hrnet_model = obj], success |-> FALSE]
      [] OTHER               -> [loader |-> ld, success |-> FALSE]

\* model_loader.py lines 22-49.
ModelLoader_load_models(ld, anomalib, hrnet, obj) ==
    LET first  == _load_anomalib_model(ld, anomalib, obj)
        second == _load_hrnet_model(first.loader, hrnet, obj)
        loaded == first.success /\ second.success
    IN  [loader |-> [second.loader EXCEPT !.models_loaded = loaded], success |-> loaded]

\* model_loader.py lines 105-110.
get_models(ld) ==
    IF ~ld.models_loaded
    THEN <<NoModel, NoModel>>
    ELSE <<ld.anomalib_model, ld.hrnet_model>>

\* model_loader.py lines 112-114.
ModelLoader_is_ready(ld) ==
    ld.models_loaded /\ ld.anomalib_model # NoModel /\ ld.hrnet_model # NoModel

\* core/detection.py: the core keeps the models it is built from.
DetectionCore(anomalib_model, hrnet_model) ==
    [anomalib_model |-> anomalib_model, hrnet_model |-> hrnet_model]

\* main.py lines 79-88.  The image and the video processor are built with the
\* core, from it (lines 85-86).
_initialize_processors_once(ld, core) ==
    LET models == get_models(ld)
    IN  IF models[1] # NoModel /\ models[2] # NoModel /\ Falsy(core)
        THEN DetectionCore(models[1], models[2])
        ELSE core

_initialize_processors(ld, core) ==
    LET models == get_models(ld)
    IN  IF models[1] # NoModel /\ models[2] # NoModel
        THEN DetectionCore(models[1], models[2])
        ELSE core

\* main.py lines 65-70.
load_models(ld, core, anomalib, hrnet, obj) ==
    LET tried == ModelLoader_load_models(ld, anomalib, hrnet, obj)
    IN  [ loader         |-> tried.loader,
          detection_core |-> IF tried.success
                             THEN _initialize_processors(tried.loader, core)
                             ELSE core,
          success        |-> tried.success ]

\* main.py lines 72-77.
load_custom_models(ld, core, anomalib, hrnet, obj) ==
    LET tried == ModelLoader_load_models(ld, anomalib, hrnet, obj)
    IN  [ loader         |-> tried.loader,
          detection_core |-> IF tried.success
                             THEN _initialize_processors(tried.loader, core)
                             ELSE core,
          success        |-> tried.success ]

\* main.py lines 90-95.
UnifiedDefectDetector_is_ready(ld, core) ==
    ModelLoader_is_ready(ld) /\ ~Falsy(core)

\* main.py lines 40-44, 62-63: a detector made without loading.
InitLoad ==
    /\ ServerInit
    /\ BatchIdle
    /\ FormatterIdle
    /\ ExtractIdle
    /\ DiskIdle
    /\ loader = ModelLoader
    /\ detection_core = None
    /\ detector = "unloaded"
    /\ device \in Devices
    /\ api_call = None
    /\ api_reply = None
    /\ core_calls = 0

\* A load leaves the loader and the core as the call made them, and the call
\* and what it returned on record.
Loaded(op, anomalib, hrnet, did) ==
    /\ loader' = did.loader
    /\ detection_core' = did.detection_core
    /\ detector' = IF UnifiedDefectDetector_is_ready(did.loader, did.detection_core)
                   THEN "ready" ELSE "unloaded"
    /\ api_call' = Call(op, [anomalib |-> anomalib, hrnet |-> hrnet])
    /\ api_reply' = Returns(<<did.success>>)
    /\ core_calls' = 0
    /\ UNCHANGED device
    /\ UNCHANGED <<server_vars, batch_vars, fmt_vars, extract_vars, disk_vars>>

LoadFromConfig ==
    /\ FreshModel <= MaxModels
    /\ \E anomalib \in AnomalibLoads, hrnet \in HrnetLoads :
         Loaded("load_models", anomalib, hrnet,
                load_models(loader, detection_core, anomalib, hrnet, FreshModel))

LoadCustom ==
    /\ FreshModel <= MaxModels
    /\ \E anomalib \in AnomalibLoads, hrnet \in HrnetLoads :
         Loaded("load_custom_models", anomalib, hrnet,
                load_custom_models(loader, detection_core, anomalib, hrnet, FreshModel))

NextLoad ==
    \/ LoadFromConfig
    \/ LoadCustom

SpecLoad == InitLoad /\ [][NextLoad]_vars

\* C28: whenever the detector is ready its core was built from the two models
\* the loader holds, and the detector is not ready after a load in which a
\* model failed to load.
C28_ReadyCoreIsCurrent ==
    /\ UnifiedDefectDetector_is_ready(loader, detection_core) =>
         /\ detection_core.anomalib_model = loader.anomalib_model
         /\ detection_core.hrnet_model = loader.hrnet_model
    /\ (~Falsy(api_call) /\ (api_call.arg.anomalib # "ok" \/ api_call.arg.hrnet # "ok")) =>
         ~UnifiedDefectDetector_is_ready(loader, detection_core)

\* Ready on the last models a behaviour may build: loads came before this
\* one.
C28_Witness ==
    /\ UnifiedDefectDetector_is_ready(loader, detection_core)
    /\ loader.anomalib_model = MaxModels
    /\ detection_core.anomalib_model = MaxModels

(***************************************************************************)
(* The files process_batch_images collects (image_processor.py lines       *)
(* 96-100): the input folder is the listing of its files, each in the      *)
(* folder itself (".") or in a folder below it.                            *)
(***************************************************************************)

\* The files a folder lists.
MaxFiles == 3

File(dir, ext, img) == [dir |-> dir, ext |-> ext, img |-> img]

\* Two images and a text file in the folder itself, a PNG image in it, and
\* an image in a folder below.
FolderFiles ==
    { File(".", "jpg", GoodImage),
      File(".", "jpg", DamagedImage),
      File(".", "png", Image("scan.png", 95000, "raise", "ok", DefectOpen, 120, "ok", "ok")),
      File(".", "txt", Image("notes.txt", 10000, "ok", "ok", DefectOpen, 120, "ok", "ok")),
      File("sub", "jpg", Image("sub/open.jpg", 95000, "ok", "ok", DefectOpen, 125, "ok", "ok")) }

\* A folder: some of the files, no file twice, in the order the directory
\* lists them.
Folders ==
    { l \in UNION { [1..n -> FolderFiles] : n \in 0..MaxFiles } :
        \A i, j \in DOMAIN l : i # j => l[i] # l[j] }

\* Line 98.
ImageExtensions == <<"jpg", "jpeg", "png", "bmp">>

\* glob.glob(os.path.join(input_folder, ext)): the files of the folder itself
\* that have the extension.
GlobPlain(listing, ext) ==
    SelectSeq(listing, LAMBDA f : f.dir = "." /\ f.ext = ext)

\* glob.glob(os.path.join(input_folder, '**', ext), recursive=True): '**'
\* matches no folder or any number of them, so the files of the folder itself
\* come first, then those of the folders below.
GlobRecursive(listing, ext) ==
    SelectSeq(listing, LAMBDA f : f.dir = "." /\ f.ext = ext)
      \o SelectSeq(listing, LAMBDA f : f.dir # "." /\ f.ext = ext)

\* Lines 97-100.
RECURSIVE CollectImageFiles(_, _)
CollectImageFiles(listing, exts) ==
    IF exts = << >>
    THEN << >>
    ELSE GlobPlain(listing, Head(exts)) \o GlobRecursive(listing, Head(exts))
           \o CollectImageFiles(listing, Tail(exts))

CollectInit ==
    /\ folder \in Folders
    /\ temp_files = {}
    /\ image_files = << >>
    /\ idx = 0
    /\ results = << >>
    /\ summary = None
    /\ attempted = << >>
    /\ batch_pc = "collect"
    /\ returned = None

\* Lines 96-100: the image files of the folder.
Collect ==
    /\ batch_pc = "collect"
    /\ image_files' = [ i \in DOMAIN CollectImageFiles(folder, ImageExtensions) |->
                          CollectImageFiles(folder, ImageExtensions)[i].img ]
    /\ batch_pc' = "start"
    /\ UNCHANGED <<idx, results, summary, attempted, returned>>
    /\ UNCHANGED <<server_vars, fmt_vars, api_vars, extract_vars, load_vars, disk_vars>>

InitCollect ==
    /\ ServerInit
    /\ CollectInit
    /\ FormatterIdle
    /\ ApiIdle
    /\ ExtractIdle
    /\ LoadIdle

NextCollect ==
    \/ Collect
    \/ FolderStart
    \/ FolderStep
    \/ FolderFinish

SpecCollect == InitCollect /\ [][NextCollect]_vars

\* The image files of the folder.
ImageFilesIn(listing) ==
    { listing[i] : i \in { j \in DOMAIN listing :
                             \E e \in DOMAIN ImageExtensions :
                                 listing[j].ext = ImageExtensions[e] } }

\* C27: a folder batch processes every image file under the folder exactly
\* once, and total_images is the number of those files.
C27_EachFileOnce ==
    (batch_pc = "done" /\ ~Falsy(returned)) =>
        /\ returned.summary.total_images = Cardinality(ImageFilesIn(folder))
        /\ \A f \in ImageFilesIn(folder) :
             Cardinality({ i \in DOMAIN attempted : attempted[i] = f.img.path }) = 1

(***************************************************************************)
(* The temporary image files of the detect-image and batch-detect handlers *)
(* (api_server.py lines 101-127, 152-175), a request at a step.             *)
(***************************************************************************)

\* The temporary files on disk when a request arrives.
MaxTempFiles == 2

\* Lines 153, 171: f"temp_batch_{idx}_{uuid.uuid4()}.jpg".
TempBatchPath(i, uuid) == [prefix |-> "temp_batch", idx |-> i, uuid |-> uuid]

\* Lines 81-127, the files the handler leaves on disk.  Nothing is written
\* before line 105; the file is removed at lines 112-113, or at lines 124-126
\* when the write raises, from the temp_id of line 102.
detect_image_files(files, req) ==
    IF detector = "absent" \/ ~is_ready
    THEN files
    ELSE IF req.kind \in {"bad_json", "not_string", "bad_base64", "no_image"}
         THEN files
         ELSE Removed(Written(files, TempPath(uuid4(files))), TempPath(uuid4(files)))

\* Lines 146-175, one iteration: an element that does not decode raises
\* before line 154; line 171 names a file after a new uuid and lines 172-173
\* remove that one.
BatchItemFiles(files, item, i) ==
    LET batch_path == TempBatchPath(i, uuid4(files))
    IN  CASE item.b64 = "ok" ->
               Removed(Written(files, batch_path), batch_path)
          [] item.b64 = "unwritable" ->
               LET on_disk == Written(files, batch_path)
               IN  Removed(on_disk, TempBatchPath(i, uuid4(on_disk)))
          [] OTHER ->
               Removed(files, batch_path)

RECURSIVE BatchFilesLoop(_, _, _)
BatchFilesLoop(files, items, i) ==
    IF items = << >>
    THEN files
    ELSE BatchFilesLoop(BatchItemFiles(files, Head(items), i), Tail(items), i + 1)

\* Lines 132-194, the files the handler leaves on disk.
batch_detect_files(files, req) ==
    IF detector = "absent" \/ ~is_ready
    THEN files
    ELSE IF req.kind # "images"
         THEN files
         ELSE BatchFilesLoop(files, req.images, 0)

\* /api/batch-detect requests whose images decode or not, or decode to an
\* image whose temporary file cannot be written to the end.
TempBatchRequests ==
    { [kind |-> "images", images |-> l] :
        l \in ShortListsOf({ Base64Item("ok", GoodImage), Base64Item("ok", FailingImage),
                             Base64Item("bad", GoodImage),
                             Base64Item("unwritable", GoodImage) }) }
    \cup { [kind |-> k, images |-> << >>] : k \in {"no_images_key", "bad_json"} }

InitTemp ==
    /\ ServerInit
    /\ BatchIdle
    /\ FormatterIdle
    /\ ApiInit
    /\ ExtractIdle
    /\ LoadIdle
    /\ DiskIdle

\* A request: what the handler answers and the files it leaves.
Handled(op, req, did, files) ==
    /\ api_call' = Call(op, req)
    /\ api_reply' = did.out
    /\ core_calls' = did.calls
    /\ temp_files' = files
    /\ UNCHANGED <<detector, device, folder, server_vars, batch_vars, fmt_vars, extract_vars, load_vars>>

DetectImageOnDisk ==
    /\ Cardinality(temp_files) < MaxTempFiles
    /\ \E req \in DetectRequests :
         Handled("detect-image", req, detect_image(req), detect_image_files(temp_files, req))

BatchDetectOnDisk ==
    /\ Cardinality(temp_files) < MaxTempFiles
    /\ \E req \in TempBatchRequests :
         Handled("batch-detect", req, batch_detect(req), batch_detect_files(temp_files, req))

NextTemp ==
    \/ DetectImageOnDisk
    \/ BatchDetectOnDisk

SpecTemp == InitTemp /\ [][NextTemp]_vars

\* C29: no temporary file of the detect-image or the batch-detect handler is
\* on disk once the handler has returned, whichever path it took.
C29_NoTempFileLeft == temp_files = {}

(***************************************************************************)
(* batch-detect on images whose result the formatter cannot project        *)
(* (api_server.py lines 164-167, 283-288).                                 *)
(***************************************************************************)

\* A classification whose bounding box has no area: line 278 raises KeyError.
DefectNoArea ==
    [ DefectOpen EXCEPT !.bounding_boxes[1].value[1] = Drop(@, "area") ]

UnformattableImage == Image("noarea.jpg", 95000, "ok", "ok", DefectNoArea, 120, "ok", "ok")

ErrItems ==
    { Base64Item("ok", img) : img \in {GoodImage, OpenImage, DamagedImage, UnformattableImage} }
    \cup { Base64Item("bad", GoodImage) }

ApiErrInit ==
    /\ image_files \in ShortListsOf(ErrItems)
    /\ idx = 0
    /\ results = << >>
    /\ summary = None
    /\ attempted = << >>
    /\ batch_pc = "start"
    /\ returned = None

InitApiErr ==
    /\ ServerInit
    /\ ApiErrInit
    /\ FormatterIdle
    /\ ApiIdle
    /\ ExtractIdle
    /\ LoadIdle
    /\ DiskIdle

NextApiErr ==
    \/ BatchDetectStart
    \/ BatchDetectStep
    \/ BatchDetectFinish

SpecApiErr == InitApiErr /\ [][NextApiErr]_vars

\* C30: defective_products of a batch-detect reply is the number of entries
\* of results whose final_decision is DEFECT; an entry the formatter turned
\* into an error object is not among them.
C30_ErrorsNotDefective ==
    (batch_pc = "done" /\ returned.code = 200) =>
        returned.body.summary.defective_products
          = Cardinality({ i \in DOMAIN returned.body.results :
                            returned.body.results[i].final_decision = "DEFECT" })
====
